---- MODULE Spec2Model ----
(***************************************************************************)
(* Generation loop of the evolutionary red-team framework: the defense     *)
(* registry (DefenseFramework / EvolvableSeed), the attack executor        *)
(* (RedTeamExecutor), the adaptation engine (RedTeamAdaptationEngine) and  *)
(* the orchestrator (EvolutionOrchestrator) with its multi-generation      *)
(* driver.  Floats of the source (fitness, rates, effectiveness) are kept  *)
(* as exact fractions [num, den] and compared by cross-multiplication.     *)
(***************************************************************************)
EXTENDS Integers, Sequences, FiniteSets, TLC

\* ------------------------------------------------------------------ bounds
\* Largest number of reports the evolution log may hold in one run.
MaxLog == 10
\* Largest number of environment events in one run: injected faults (a
\* payload generator or a defense evaluation raising) plus direct registry
\* calls (strengthen_defense, activate_defense, test_defense).
MaxEvents == 1

\* --------------------------------------------------------- program constants
MaxStrength == 10
DefaultStrength == 1
AdaptIncrement == 2
BreakthroughIncrement == 3
EmergencyThreshold == 50
PerfectFitness == 100
StagnationRange == 5
StagnationMinLog == 4
StagnationAfterGen == 3
StagnationWindow == 3
MaxDifficulty == 10
DefaultMaxGenerations == 10
DefaultPopulation == 6

\* initial_population_size, initial_strength and max_generations are
\* configuration inputs; these are the values the model draws them from.
PopulationSizes == {0, 1, 2, DefaultPopulation}
InitialStrengths == {DefaultStrength, 9}
MaxGenerationChoices == {1, DefaultMaxGenerations}
\* amounts passed to strengthen by direct callers (default 1, tests use 3 and 5)
Amounts == {1, 3, 5}

\* ------------------------------------------------------------- enumerations
INPUT_VALIDATION == "validate_input"
TYPE_CHECKING == "check_type"
BOUNDS_ENFORCEMENT == "enforce_bounds"
SANITIZATION == "sanitize"
STATE_PROTECTION == "protect_state"
RATE_LIMITING == "rate_limit"
CRYPTOGRAPHY == "encrypt"
LOGIC_HARDENING == "harden_logic"
ANOMALY_DETECTION == "detect_anomaly"

DefenseType ==
  {INPUT_VALIDATION, TYPE_CHECKING, BOUNDS_ENFORCEMENT, SANITIZATION,
   STATE_PROTECTION, RATE_LIMITING, CRYPTOGRAPHY, LOGIC_HARDENING,
   ANOMALY_DETECTION}

\* the categories _initialize_defenses registers
Registered ==
  {INPUT_VALIDATION, TYPE_CHECKING, BOUNDS_ENFORCEMENT, SANITIZATION,
   STATE_PROTECTION, RATE_LIMITING, CRYPTOGRAPHY}

\* the categories direct registry calls are made on: one registered and
\* active from the start, one registered and inactive, one not registered
DirectCategories == {INPUT_VALIDATION, RATE_LIMITING, LOGIC_HARDENING}

InitiallyActive ==
  {INPUT_VALIDATION, TYPE_CHECKING, BOUNDS_ENFORCEMENT, SANITIZATION,
   STATE_PROTECTION}

Min(a, b) == IF a <= b THEN a ELSE b

\* ------------------------------------------------------------------ payloads
\* A payload is kept by the properties the defenses read: its runtime kind,
\* its len(), and what str(value) contains (base: one of the nine base
\* blacklist patterns in the upper-cased form; ext: one of < > { } [ ];
\* prot: _protected or _private; code: exec or eval; quote: a ' character).
Pay(kind, len, base, ext, prot, code, quote) ==
  [kind |-> kind, len |-> len, base |-> base, ext |-> ext, prot |-> prot,
   code |-> code, quote |-> quote]

NonePayload == Pay("none", 0, FALSE, FALSE, FALSE, FALSE, FALSE)

null_injection == NonePayload
empty_string == Pay("str", 0, FALSE, FALSE, FALSE, FALSE, FALSE)
type_confusion_list == Pay("list", 3, TRUE, TRUE, FALSE, FALSE, TRUE)
type_confusion_dict == Pay("dict", 2, TRUE, TRUE, FALSE, TRUE, TRUE)
\* an overflow string short enough to pass the bounds check of a stronger
\* defense (max_len is 23 at strength 1 and 38 at strength 6)
buffer_overflow_short(gen) ==
  Pay("str", 30 + gen, FALSE, FALSE, FALSE, FALSE, FALSE)
buffer_overflow_small(gen) ==
  Pay("str", 500 + gen * 100, FALSE, FALSE, FALSE, FALSE, FALSE)
sql_injection == Pay("str", 21, TRUE, FALSE, FALSE, FALSE, TRUE)
\* an obfuscation that, from generation 3 on, holds no blacklisted pattern
sql_injection_obfuscated_evades(gen) ==
  IF gen < 3 THEN Pay("str", 15, TRUE, FALSE, FALSE, FALSE, TRUE)
  ELSE Pay("str", 20, FALSE, FALSE, FALSE, FALSE, TRUE)
sql_injection_obfuscated(gen) ==
  IF gen < 3 THEN Pay("str", 15, TRUE, FALSE, FALSE, FALSE, TRUE)
  ELSE Pay("str", 20, TRUE, FALSE, FALSE, FALSE, TRUE)
state_corruption == Pay("dict", 2, TRUE, TRUE, TRUE, FALSE, TRUE)
code_injection == Pay("dict", 2, TRUE, TRUE, FALSE, TRUE, TRUE)

\* the catalog of _initialize_patterns: target category and base difficulty
Catalog ==
  << [description |-> "Null injection attack", defense_type |-> INPUT_VALIDATION, difficulty |-> 1],
     [description |-> "Empty string bypass", defense_type |-> INPUT_VALIDATION, difficulty |-> 1],
     [description |-> "List type confusion", defense_type |-> TYPE_CHECKING, difficulty |-> 2],
     [description |-> "Dict type confusion", defense_type |-> TYPE_CHECKING, difficulty |-> 2],
     [description |-> "String buffer overflow", defense_type |-> BOUNDS_ENFORCEMENT, difficulty |-> 3],
     [description |-> "SQL injection", defense_type |-> SANITIZATION, difficulty |-> 4],
     [description |-> "Obfuscated SQL injection", defense_type |-> SANITIZATION, difficulty |-> 5],
     [description |-> "State object corruption", defense_type |-> STATE_PROTECTION, difficulty |-> 3],
     [description |-> "Code execution injection", defense_type |-> STATE_PROTECTION, difficulty |-> 5] >>

\* payload_generator of catalog entry g, called while generation_number = gen
Generate(g, gen) ==
  CASE g = 1 -> null_injection
    [] g = 2 -> empty_string
    [] g = 3 -> type_confusion_list
    [] g = 4 -> type_confusion_dict
    [] g = 5 -> buffer_overflow_small(gen)
    [] g = 6 -> sql_injection
    [] g = 7 -> sql_injection_obfuscated(gen)
    [] g = 8 -> state_corruption
    [] OTHER -> code_injection

\* ------------------------------------------------------------ DefenseConfig
NewDefenseConfig(act, str) ==
  [active |-> act, strength |-> str, times_triggered |-> 0,
   successful_blocks |-> 0, false_positives |-> 0]

\* strengthen without the cap at 10
ConfigStrengthenUnclamped(cfg, amount) ==
  [cfg EXCEPT !.strength = cfg.strength + amount]

\* DefenseConfig.strengthen
ConfigStrengthen(cfg, amount) ==
  [cfg EXCEPT !.strength = Min(MaxStrength, cfg.strength + amount)]

\* trigger that forgets to count a pass as a false positive
ConfigTriggerDropsPass(cfg, successful) ==
  IF successful
  THEN [cfg EXCEPT !.times_triggered = @ + 1, !.successful_blocks = @ + 1]
  ELSE [cfg EXCEPT !.times_triggered = @ + 1]

\* trigger that hardens the defense by one on every block
ConfigTriggerHardensOnBlock(cfg, successful) ==
  IF successful
  THEN [cfg EXCEPT !.times_triggered = @ + 1, !.successful_blocks = @ + 1,
                   !.strength = IF @ < 10 THEN @ + 1 ELSE @]
  ELSE [cfg EXCEPT !.times_triggered = @ + 1, !.false_positives = @ + 1]

\* DefenseConfig.trigger
ConfigTrigger(cfg, successful) ==
  IF successful
  THEN [cfg EXCEPT !.times_triggered = @ + 1, !.successful_blocks = @ + 1]
  ELSE [cfg EXCEPT !.times_triggered = @ + 1, !.false_positives = @ + 1]

\* ---------------------------------------------------------------- evaluate
\* Every evaluate yields [blocked, reason, rc]: rc is the rate limiter's
\* request_count after the call (unchanged by the other defenses).
\* The element of a one-element set. {e(x) : x \in {v}} evaluates v once and
\* binds x to its value; the loops below thread their state this way.
Only(S) == CHOOSE x \in S : TRUE

Verdict(b, why, rc) == [blocked |-> b, reason |-> why, rc |-> rc]

InputValidationEvaluate(v, strength, rc) ==
  IF v.kind = "none" THEN Verdict(TRUE, "Rejected: null value", rc)
  ELSE IF v.kind = "str" /\ v.len = 0 THEN Verdict(TRUE, "Rejected: empty string", rc)
  ELSE IF strength >= 4 /\ v.kind \notin {"str", "int", "float"}
       THEN Verdict(TRUE, "Rejected: invalid base type", rc)
  ELSE Verdict(FALSE, "Passed validation", rc)

TypeCheckingEvaluate(v, strength, rc) ==
  IF v.kind \in {"list", "dict", "tuple", "set"} THEN Verdict(TRUE, "Rejected: type", rc)
  ELSE IF v.kind = "object" THEN Verdict(TRUE, "Rejected: complex object", rc)
  ELSE Verdict(FALSE, "Passed type check", rc)

BoundsMaxLen(strength) == 50 - (10 - strength) * 3

\* a bounds check that also rejects a string of exactly max_len characters
BoundsEnforcementEvaluateInclusive(v, strength, rc) ==
  IF v.kind = "str" /\ v.len >= BoundsMaxLen(strength)
  THEN Verdict(TRUE, "Rejected: string too long", rc)
  ELSE IF v.kind \in {"list", "dict"} /\ 2 * v.len > BoundsMaxLen(strength)
       THEN Verdict(TRUE, "Rejected: collection too large", rc)
  ELSE Verdict(FALSE, "Passed bounds check", rc)

BoundsEnforcementEvaluate(v, strength, rc) ==
  IF v.kind = "str" /\ v.len > BoundsMaxLen(strength)
  THEN Verdict(TRUE, "Rejected: string too long", rc)
  ELSE IF v.kind \in {"list", "dict"} /\ 2 * v.len > BoundsMaxLen(strength)
       THEN Verdict(TRUE, "Rejected: collection too large", rc)
  ELSE Verdict(FALSE, "Passed bounds check", rc)

SanitizationEvaluate(v, strength, rc) ==
  IF v.base \/ (strength >= 8 /\ v.ext)
  THEN Verdict(TRUE, "Rejected: dangerous pattern", rc)
  ELSE Verdict(FALSE, "Passed sanitization", rc)

StateProtectionEvaluate(v, strength, rc) ==
  IF v.kind \in {"dict", "list"} /\ v.prot
  THEN Verdict(TRUE, "Rejected: state injection attempt", rc)
  ELSE IF v.kind \in {"dict", "list"} /\ v.code
       THEN Verdict(TRUE, "Rejected: code injection attempt", rc)
  ELSE Verdict(FALSE, "Passed state protection", rc)

\* rate limiting that blocks as soon as the counter reaches strength * 2
RateLimitingEvaluateInclusive(v, strength, rc) ==
  IF strength >= 5 /\ rc + 1 >= strength * 2
  THEN Verdict(TRUE, "Rejected: rate limit exceeded", 0)
  ELSE Verdict(FALSE, "Passed rate limit", rc + 1)

RateLimitingEvaluate(v, strength, rc) ==
  IF strength >= 5 /\ rc + 1 > strength * 2
  THEN Verdict(TRUE, "Rejected: rate limit exceeded", 0)
  ELSE Verdict(FALSE, "Passed rate limit", rc + 1)

CryptographyEvaluate(v, strength, rc) ==
  IF strength >= 7 /\ v.kind = "str" /\ v.len % 2 /= 0 /\ v.quote
  THEN Verdict(TRUE, "Rejected: crypto validation failed", rc)
  ELSE Verdict(FALSE, "Passed crypto check", rc)

\* dispatch on the defense class registered for the category
Evaluate(c, v, strength, rc) ==
  CASE c = INPUT_VALIDATION -> InputValidationEvaluate(v, strength, rc)
    [] c = TYPE_CHECKING -> TypeCheckingEvaluate(v, strength, rc)
    [] c = BOUNDS_ENFORCEMENT -> BoundsEnforcementEvaluate(v, strength, rc)
    [] c = SANITIZATION -> SanitizationEvaluate(v, strength, rc)
    [] c = STATE_PROTECTION -> StateProtectionEvaluate(v, strength, rc)
    [] c = RATE_LIMITING -> RateLimitingEvaluate(v, strength, rc)
    [] OTHER -> CryptographyEvaluate(v, strength, rc)

\* ------------------------------------------------------- DefenseFramework
\* The registry state threaded through the operators below.
Reg(defs, rc) == [defs |-> defs, rc |-> rc]

\* DefenseMechanism.execute: evaluate, then record the trigger
DefenseExecute(reg, c, v) ==
  Only({[blocked |-> r.blocked, reason |-> r.reason,
         reg |-> Reg([reg.defs EXCEPT ![c] = ConfigTrigger(@, r.blocked)], r.rc)] :
          r \in {Evaluate(c, v, reg.defs[c].strength, reg.rc)}})

\* apply_defense without the check of config.active
ApplyDefenseIgnoresActive(reg, c, v, fault) ==
  IF c \notin DOMAIN reg.defs
  THEN [blocked |-> FALSE, reason |-> "Defense not found", reg |-> reg]
  ELSE IF fault
  THEN [blocked |-> FALSE, reason |-> "Defense execution error", reg |-> reg]
  ELSE DefenseExecute(reg, c, v)

\* apply_defense that fails closed: a raising evaluation blocks the value
ApplyDefenseFaultBlocks(reg, c, v, fault) ==
  IF c \notin DOMAIN reg.defs
  THEN [blocked |-> FALSE, reason |-> "Defense not found", reg |-> reg]
  ELSE IF ~reg.defs[c].active
  THEN [blocked |-> FALSE, reason |-> "Defense inactive", reg |-> reg]
  ELSE IF fault
  THEN [blocked |-> TRUE, reason |-> "Defense execution error", reg |-> reg]
  ELSE DefenseExecute(reg, c, v)

\* DefenseFramework.apply_defense; fault: the evaluation raises
ApplyDefense(reg, c, v, fault) ==
  IF c \notin DOMAIN reg.defs
  THEN [blocked |-> FALSE, reason |-> "Defense not found", reg |-> reg]
  ELSE IF ~reg.defs[c].active
  THEN [blocked |-> FALSE, reason |-> "Defense inactive", reg |-> reg]
  ELSE IF fault
  THEN [blocked |-> FALSE, reason |-> "Defense execution error", reg |-> reg]
  ELSE DefenseExecute(reg, c, v)

\* activate that registers a category it does not know
ActivateRegistersUnknown(defs, c) ==
  IF c \in DOMAIN defs THEN [defs EXCEPT ![c].active = TRUE]
  ELSE [x \in DOMAIN defs \cup {c} |->
          IF x = c THEN NewDefenseConfig(TRUE, DefaultStrength) ELSE defs[x]]

\* activate that flips the active flag
ActivateToggles(defs, c) ==
  IF c \in DOMAIN defs THEN [defs EXCEPT ![c].active = ~@] ELSE defs

\* DefenseFramework.activate
Activate(defs, c) ==
  IF c \in DOMAIN defs THEN [defs EXCEPT ![c].active = TRUE] ELSE defs

\* DefenseFramework.strengthen
Strengthen(defs, c, amount) ==
  IF c \in DOMAIN defs THEN [defs EXCEPT ![c] = ConfigStrengthen(@, amount)] ELSE defs

\* a fraction num/den of the source's float arithmetic
Frac(n, d) == [num |-> n, den |-> d]

\* DefenseConfig.effectiveness
Effectiveness(cfg) ==
  IF cfg.times_triggered = 0 THEN Frac(0, 1)
  ELSE Frac(cfg.successful_blocks, cfg.times_triggered)

\* get_snapshot that reports only the active defenses
GetSnapshotActiveOnly(defs) ==
  [c \in {d \in DOMAIN defs : defs[d].active} |->
     [active |-> defs[c].active, strength |-> defs[c].strength,
      triggered |-> defs[c].times_triggered,
      effectiveness |-> Effectiveness(defs[c])]]

\* DefenseFramework.get_snapshot
GetSnapshot(defs) ==
  [c \in DOMAIN defs |->
     [active |-> defs[c].active, strength |-> defs[c].strength,
      triggered |-> defs[c].times_triggered,
      effectiveness |-> Effectiveness(defs[c])]]

\* --------------------------------------------------------- RedTeamExecutor
\* RedTeamExecutor._initialize_patterns: the first min(9, size) catalog rows
InitializePatterns(size) ==
  [i \in 1..Min(Len(Catalog), size) |->
     [description |-> Catalog[i].description, generator |-> i,
      defense_type |-> Catalog[i].defense_type,
      difficulty |-> Catalog[i].difficulty,
      success_count |-> 0, attempt_count |-> 0, adaptations |-> 0]]

\* record_attempt that counts the attempt only when the attack failed
RecordAttemptOnFailureOnly(p, succeeded) ==
  IF succeeded
  THEN [p EXCEPT !.success_count = @ + 1]
  ELSE [p EXCEPT !.attempt_count = @ + 1]

\* AttackPattern.record_attempt
RecordAttempt(p, succeeded) ==
  IF succeeded
  THEN [p EXCEPT !.attempt_count = @ + 1, !.success_count = @ + 1]
  ELSE [p EXCEPT !.attempt_count = @ + 1]

\* RedTeamExecutor._calculate_severity
CalculateSeverity(p) ==
  IF p.difficulty >= 5 THEN "CRITICAL"
  ELSE IF p.difficulty >= 4 THEN "HIGH"
  ELSE IF p.difficulty >= 2 THEN "MEDIUM"
  ELSE "LOW"

\* what may go wrong in one attack: nothing, the payload generator raises,
\* or the defense evaluation raises
FaultKinds == {"ok", "gen", "eval"}

\* execute_attack that gives up on a pattern whose generator raises: no
\* evaluation, no attempt recorded
ExecuteAttackSkipsOnGeneratorFault(reg, p, gen, fault) ==
  IF fault = "gen"
  THEN [reg |-> reg, pattern |-> p,
        exploit |-> [vector |-> p.defense_type, description |-> p.description,
                     payload |-> NonePayload, severity |-> CalculateSeverity(p),
                     difficulty |-> p.difficulty, blocked |-> FALSE,
                     defense_reason |-> "Payload generation error"]]
  ELSE Only({[reg |-> r.reg, pattern |-> RecordAttempt(p, ~r.blocked),
              exploit |-> [vector |-> p.defense_type, description |-> p.description,
                           payload |-> Generate(p.generator, gen),
                           severity |-> CalculateSeverity(RecordAttempt(p, ~r.blocked)),
                           difficulty |-> RecordAttempt(p, ~r.blocked).difficulty,
                           blocked |-> r.blocked, defense_reason |-> r.reason]] :
               r \in {ApplyDefense(reg, p.defense_type, Generate(p.generator, gen),
                                   fault = "eval")}})

\* RedTeamExecutor.execute_attack on pattern p in registry state reg
ExecuteAttack(reg, p, gen, fault) ==
  LET payload == IF fault = "gen" THEN NonePayload ELSE Generate(p.generator, gen)
  IN Only({[reg |-> r.reg, pattern |-> RecordAttempt(p, ~r.blocked),
            exploit |-> [vector |-> p.defense_type, description |-> p.description,
                         payload |-> payload,
                         severity |-> CalculateSeverity(RecordAttempt(p, ~r.blocked)),
                         difficulty |-> RecordAttempt(p, ~r.blocked).difficulty,
                         blocked |-> r.blocked, defense_reason |-> r.reason]] :
             r \in {ApplyDefense(reg, p.defense_type, payload, fault = "eval")}})

\* number of records with blocked = TRUE among the first n
RECURSIVE CountBlocked(_, _)
CountBlocked(exploits, n) ==
  IF n = 0 THEN 0
  ELSE CountBlocked(exploits, n - 1) + (IF exploits[n].blocked THEN 1 ELSE 0)

\* one iteration of the loop of execute_suite on st = [reg, patterns, exploits]
SuiteStep(st, i, gen, fault) ==
  LET r == ExecuteAttack(st.reg, st.patterns[i], gen, fault)
  IN [reg |-> r.reg, patterns |-> [st.patterns EXCEPT ![i] = r.pattern],
      exploits |-> Append(st.exploits, r.exploit)]

\* the loop of execute_suite after its first i - 1 iterations
RECURSIVE SuiteFrom(_, _, _, _)
SuiteFrom(i, st, gen, fa) ==
  IF i > Len(st.patterns) THEN st
  ELSE Only({SuiteFrom(k, nx, gen, fa) :
               nx \in {SuiteStep(st, i, gen, fa[i])}, k \in {i + 1}})

\* execute_suite whose loop skips the first pattern
ExecuteSuiteSkipsFirst(reg, pats, gen, fa) ==
  Only({[reg |-> s.reg, patterns |-> s.patterns, exploits |-> s.exploits,
         blocked_count |-> CountBlocked(s.exploits, Len(s.exploits)),
         total |-> Len(s.exploits)] :
          s \in {SuiteFrom(2, [reg |-> reg, patterns |-> pats, exploits |-> << >>],
                           gen, fa)}})

\* RedTeamExecutor.execute_suite
ExecuteSuite(reg, pats, gen, fa) ==
  Only({[reg |-> s.reg, patterns |-> s.patterns, exploits |-> s.exploits,
         blocked_count |-> CountBlocked(s.exploits, Len(s.exploits)),
         total |-> Len(s.exploits)] :
          s \in {SuiteFrom(1, [reg |-> reg, patterns |-> pats, exploits |-> << >>],
                           gen, fa)}})

\* the fault assignments of one suite that inject at most k faults; with
\* k = 0 that is the one assignment without a fault
FaultChoices(n, k) ==
  IF k = 0 THEN {[i \in 1..n |-> "ok"]}
  ELSE {fa \in [1..n -> FaultKinds] : Cardinality({i \in 1..n : fa[i] /= "ok"}) <= k}

NumFaults(fa) == Cardinality({i \in DOMAIN fa : fa[i] /= "ok"})

\* ------------------------------------------------- RedTeamAdaptationEngine
\* the categories with at least one not-blocked record
FailedDefenses(exploits) ==
  {exploits[i].vector : i \in {j \in 1..Len(exploits) : ~exploits[j].blocked}}

FailureCount(exploits, c) ==
  Cardinality({j \in 1..Len(exploits) : ~exploits[j].blocked /\ exploits[j].vector = c})

\* the keys of failures_by_defense in insertion order: the failed categories
\* by first failure among the first n records
RECURSIVE FailuresByDefense(_, _)
FailuresByDefense(exploits, n) ==
  IF n = 0 THEN << >>
  ELSE Only({IF ~exploits[n].blocked
                  /\ exploits[n].vector \notin {prev[k] : k \in DOMAIN prev}
             THEN Append(prev, exploits[n].vector) ELSE prev :
               prev \in {FailuresByDefense(exploits, n - 1)}})

\* TestIssue(issue_type, description, severity, affected_defense) for the
\* failed category c
NewTestIssue(exploits, c) ==
  [issue_type |-> "DEFENSE_FAILURE", affected_defense |-> c,
   failures |-> FailureCount(exploits, c),
   severity |-> IF FailureCount(exploits, c) > 2 THEN "CRITICAL" ELSE "HIGH"]

\* analyze_results that creates an issue for every failed record
RECURSIVE AnalyzeResultsPerRecord(_)
AnalyzeResultsPerRecord(exploits) ==
  IF exploits = << >> THEN << >>
  ELSE IF exploits[1].blocked THEN AnalyzeResultsPerRecord(Tail(exploits))
  ELSE <<NewTestIssue(<<exploits[1]>>, exploits[1].vector)>>
         \o AnalyzeResultsPerRecord(Tail(exploits))

\* RedTeamAdaptationEngine.analyze_results: one issue per failed category
AnalyzeResults(exploits) ==
  [k \in DOMAIN FailuresByDefense(exploits, Len(exploits)) |->
     NewTestIssue(exploits, FailuresByDefense(exploits, Len(exploits))[k])]

\* the success test of adapt_patterns with the threshold included
RateAtLeast06(p) == p.attempt_count > 0 /\ p.success_count * 5 >= 3 * p.attempt_count

\* AttackPattern.success_rate compared with the thresholds of adapt_patterns
RateAbove06(p) == p.attempt_count > 0 /\ p.success_count * 5 > 3 * p.attempt_count
RateBelow02(p) == p.attempt_count = 0 \/ p.success_count * 5 < p.attempt_count

Mutable == {BOUNDS_ENFORCEMENT, SANITIZATION, TYPE_CHECKING}

\* _mutate_payload with a final branch that raises the difficulty for every
\* other category too
MutatePayloadEveryCategory(p) == [p EXCEPT !.difficulty = @ + 1]

\* RedTeamAdaptationEngine._mutate_payload
MutatePayload(p) ==
  IF p.defense_type \in Mutable THEN [p EXCEPT !.difficulty = @ + 1] ELSE p

\* one iteration of the loop of adapt_patterns
AdaptPattern(p) ==
  IF RateAbove06(p)
  THEN [p EXCEPT !.difficulty = Min(MaxDifficulty, @ + 1), !.adaptations = @ + 1]
  ELSE IF RateBelow02(p) /\ p.attempt_count > 2 THEN MutatePayload(p)
  ELSE p

\* the entry adapt_patterns reports for a pattern, "" when it reports none
AdaptationEntry(p) ==
  IF RateAbove06(p) THEN "increased"
  ELSE IF RateBelow02(p) /\ p.attempt_count > 2 THEN "mutated"
  ELSE ""

\* RedTeamAdaptationEngine.adapt_patterns
AdaptPatterns(pats) == [i \in DOMAIN pats |-> AdaptPattern(pats[i])]

AdaptationEntries(pats) ==
  LET RECURSIVE From(_)
      From(i) == IF i > Len(pats) THEN << >>
                 ELSE IF AdaptationEntry(pats[i]) = "" THEN From(i + 1)
                 ELSE << <<AdaptationEntry(pats[i]), pats[i].description>> >> \o From(i + 1)
  IN From(1)

\* ---------------------------------------------------- EvolutionOrchestrator
\* defense_relationships of _apply_defensive_adaptations
DefenseRelationships(c) ==
  CASE c = INPUT_VALIDATION -> <<SANITIZATION, BOUNDS_ENFORCEMENT>>
    [] c = TYPE_CHECKING -> <<BOUNDS_ENFORCEMENT>>
    [] c = SANITIZATION -> <<CRYPTOGRAPHY, STATE_PROTECTION>>
    [] c = BOUNDS_ENFORCEMENT -> <<RATE_LIMITING>>
    [] OTHER -> << >>

\* the orders in which a Python set of categories may be iterated
Orders(S) ==
  {o \in [1..Cardinality(S) -> S] : {o[i] : i \in DOMAIN o} = S}

\* Strategy 1 that strengthens only the first failed defense it iterates
StrengthenFailedFirstOnly(defs, order, i) ==
  IF Len(order) = 0 THEN defs ELSE Strengthen(defs, order[1], AdaptIncrement)

\* Strategy 1: strengthen every failed defense by 2, in iteration order
RECURSIVE StrengthenFailed(_, _, _)
StrengthenFailed(defs, order, i) ==
  IF i > Len(order) THEN defs
  ELSE Only({StrengthenFailed(d, order, k) :
               d \in {Strengthen(defs, order[i], AdaptIncrement)}, k \in {i + 1}})

\* Strategy 2, inner loop: activate the inactive complementary defenses of one
\* failed defense; st = [defs, fixes]
RECURSIVE ActivateComplementary(_, _, _)
ActivateComplementary(st, comps, j) ==
  IF j > Len(comps) THEN st
  ELSE Only({ActivateComplementary(nx, comps, k) :
               nx \in {IF ~GetSnapshot(st.defs)[comps[j]].active
                       THEN [defs |-> Activate(st.defs, comps[j]),
                             fixes |-> st.fixes + 1]
                       ELSE st},
               k \in {j + 1}})

\* Strategy 2 with the inner loop placed after the outer one: only the last
\* failed defense iterated gets its complementary defenses activated
ActivateRelatedLastOnly(st, order, i) ==
  IF Len(order) = 0 THEN st
  ELSE ActivateComplementary(st, DefenseRelationships(order[Len(order)]), 1)

\* Strategy 2, outer loop over the failed defenses
RECURSIVE ActivateRelated(_, _, _)
ActivateRelated(st, order, i) ==
  IF i > Len(order) THEN st
  ELSE Only({ActivateRelated(nx, order, k) :
               nx \in {ActivateComplementary(st, DefenseRelationships(order[i]), 1)},
               k \in {i + 1}})

\* the Strategy 3 test that takes an empty list of records as not low
LowFitnessNonEmptyOnly(exploits) ==
  Len(exploits) > 0
    /\ CountBlocked(exploits, Len(exploits)) * 100 < EmergencyThreshold * Len(exploits)

\* the fitness of Strategy 3 is below 50
LowFitness(exploits) ==
  Len(exploits) = 0
    \/ CountBlocked(exploits, Len(exploits)) * 100 < EmergencyThreshold * Len(exploits)

\* Strategy 3: activate every DefenseType member
RECURSIVE ActivateAll(_, _)
ActivateAll(defs, S) ==
  IF S = {} THEN defs
  ELSE Only({Only({ActivateAll(d, rest) :
                     d \in {Activate(defs, c)}, rest \in {S \ {c}}}) :
               c \in {CHOOSE x \in S : TRUE}})

\* EvolutionOrchestrator._apply_defensive_adaptations: [defs, fixes]
ApplyDefensiveAdaptations(defs, exploits, order) ==
  LET s1 == StrengthenFailed(defs, order, 1)
      s2 == ActivateRelated([defs |-> s1, fixes |-> Len(order)], order, 1)
  IN IF LowFitness(exploits)
     THEN [defs |-> ActivateAll(s2.defs, DefenseType), fixes |-> s2.fixes + 1]
     ELSE s2

\* fitness computed from the attacks that got through
FitnessScoreOfMisses(blocked, total) ==
  IF total > 0 THEN Frac((total - blocked) * 100, total) ELSE Frac(0, 1)

\* the fitness_score run_generation computes
FitnessScore(blocked, total) ==
  IF total > 0 THEN Frac(blocked * 100, total) ELSE Frac(0, 1)

\* a - b < d for fractions a, b and an integer d
FracDiffBelow(a, b, d) == a.num * b.den - b.num * a.den < d * a.den * b.den

\* fitness_score >= 100.0
PerfectDefense(r) == r.fitness_score.num >= PerfectFitness * r.fitness_score.den

\* _check_stagnation that asks for six reports before it looks
CheckStagnationNeedsSix(log) ==
  IF Len(log) < 6 THEN FALSE
  ELSE LET recent == {log[i].fitness_score : i \in (Len(log) - StagnationWindow + 1)..Len(log)}
       IN \A a \in recent : \A b \in recent : FracDiffBelow(a, b, StagnationRange)

\* _check_stagnation that also counts a range of exactly 5 as stagnation
CheckStagnationInclusive(log) ==
  IF Len(log) < StagnationMinLog THEN FALSE
  ELSE LET recent == {log[i].fitness_score : i \in (Len(log) - StagnationWindow + 1)..Len(log)}
       IN \A a \in recent : \A b \in recent : FracDiffBelow(a, b, StagnationRange + 1)

\* EvolutionOrchestrator._check_stagnation on the evolution log
CheckStagnation(log) ==
  IF Len(log) < StagnationMinLog THEN FALSE
  ELSE LET recent == {log[i].fitness_score : i \in (Len(log) - StagnationWindow + 1)..Len(log)}
       IN \A a \in recent : \A b \in recent : FracDiffBelow(a, b, StagnationRange)

\* EvolutionOrchestrator._apply_breakthrough_mutations
RECURSIVE ApplyBreakthroughMutations(_, _)
ApplyBreakthroughMutations(defs, S) ==
  IF S = {} THEN defs
  ELSE Only({Only({ApplyBreakthroughMutations(d, rest) :
                     d \in {Activate(Strengthen(defs, c, BreakthroughIncrement), c)},
                     rest \in {S \ {c}}}) :
               c \in {CHOOSE x \in S : TRUE}})

\* GenerationReport.success_rate
ReportSuccessRate(r) ==
  IF r.attacks_total = 0 THEN Frac(0, 1)
  ELSE Frac(r.attacks_blocked * 100, r.attacks_total)

\* collect_generation_metrics that numbers the generations from 1
CollectGenerationMetricsOneBased(r) ==
  [generation |-> r.generation + 1,
   fitness_score |-> ReportSuccessRate(r),
   attacks_blocked |-> r.attacks_blocked, attacks_total |-> r.attacks_total,
   defenses_active |->
     Cardinality({c \in DOMAIN r.defenses_snapshot : r.defenses_snapshot[c].active}),
   defenses_total |-> Cardinality(DOMAIN r.defenses_snapshot),
   issues_found |-> Len(r.issues),
   code_iterations |-> r.code_iterations]

\* MetricsCollector.collect_generation_metrics
CollectGenerationMetrics(r) ==
  [generation |-> r.generation,
   fitness_score |-> ReportSuccessRate(r),
   attacks_blocked |-> r.attacks_blocked, attacks_total |-> r.attacks_total,
   defenses_active |->
     Cardinality({c \in DOMAIN r.defenses_snapshot : r.defenses_snapshot[c].active}),
   defenses_total |-> Cardinality(DOMAIN r.defenses_snapshot),
   issues_found |-> Len(r.issues),
   code_iterations |-> r.code_iterations]

EmptySnapshot == [c \in {} |-> 0]

\* GenerationReport(generation, phase) with the dataclass defaults
NewGenerationReport(gen_num) ==
  [generation |-> gen_num, phase |-> "testing", exploits |-> << >>,
   issues |-> << >>, defenses_snapshot |-> EmptySnapshot,
   fitness_score |-> Frac(0, 1), code_iterations |-> 0,
   attacks_blocked |-> 0, attacks_total |-> 0]

\* no run_generation call is in progress
NoReport == NewGenerationReport(-1)

\* no direct registry call has been made yet
NoCall == [op |-> "none", category |-> "", blocked |-> FALSE, reason |-> ""]

\* a direct call of op on category c and the (blocked, reason) it returned;
\* strengthen_defense and activate_defense return nothing
Call(op, c, blocked, why) ==
  [op |-> op, category |-> c, blocked |-> blocked, reason |-> why]

\* ------------------------------------------------------------------- state
VARIABLES
  defenses,            \* DefenseFramework.defenses: category -> DefenseConfig
  request_count,       \* RateLimitingDefense.request_count
  attack_patterns,     \* RedTeamExecutor.attack_patterns
  generation_number,   \* RedTeamExecutor.generation_number
  adaptation_history,  \* RedTeamAdaptationEngine.adaptation_history
  phase,               \* where run_generation stands
  report,              \* the GenerationReport run_generation is building
  evolution_log,       \* EvolutionOrchestrator.evolution_log
  evolution_history,   \* EvolvableSeed.evolution_history
  seed_generation,     \* EvolvableSeed.generation
  metrics_history,     \* MetricsCollector.metrics_history
  code_iteration_count,\* EvolutionOrchestrator.code_iteration_count
  max_generations,     \* EvolutionOrchestrator.max_generations
  cycle,               \* where run_evolution_cycle stands
  gen,                 \* loop variable of run_evolution_cycle
  breakthroughs,       \* calls of _apply_breakthrough_mutations so far
  faults,              \* faults injected so far
  directs,             \* direct registry calls so far
  last_call,           \* the latest direct registry call and what it returned
  suite_results,       \* blocked counts returned by a client's execute_suite calls
  evaluated            \* the value a direct caller last passed to DefenseMechanism.execute

vars ==
  <<defenses, request_count, attack_patterns, generation_number,
    adaptation_history, phase, report, evolution_log, evolution_history,
    seed_generation, metrics_history, code_iteration_count, max_generations,
    cycle, gen, breakthroughs, faults, directs, last_call, suite_results,
    evaluated>>

registryVars == <<defenses, request_count>>
historyVars == <<evolution_log, evolution_history, seed_generation>>
cycleVars == <<max_generations, cycle, gen, breakthroughs, metrics_history>>

\* DefenseFramework._initialize_defenses
InitializeDefenses(initial_strength) ==
  [c \in Registered |->
     IF c \in InitiallyActive THEN NewDefenseConfig(TRUE, initial_strength)
     ELSE NewDefenseConfig(FALSE, DefaultStrength)]

\* EvolvableSeed(name, config) followed by EvolutionOrchestrator(seed, max)
Init ==
  /\ \E s \in InitialStrengths : defenses = InitializeDefenses(s)
  /\ request_count = 0
  /\ \E n \in PopulationSizes : attack_patterns = InitializePatterns(n)
  /\ generation_number = 0
  /\ adaptation_history = << >>
  /\ phase = "Idle"
  /\ report = NoReport
  /\ evolution_log = << >>
  /\ evolution_history = << >>
  /\ seed_generation = 0
  /\ metrics_history = << >>
  /\ code_iteration_count = 0
  /\ max_generations \in MaxGenerationChoices
  /\ cycle = "off"
  /\ gen = 0
  /\ breakthroughs = 0
  /\ faults = 0
  /\ directs = 0
  /\ last_call = NoCall
  /\ suite_results = << >>
  /\ evaluated = NonePayload

\* ------------------------------------------------------- run_generation
\* entry of run_generation(gen_num): the report is created and the executor
\* is told the generation number
BeginGeneration(gen_num) ==
  /\ phase = "Idle"
  /\ Len(evolution_log) < MaxLog
  /\ phase' = "Executing"
  /\ report' = NewGenerationReport(gen_num)
  /\ generation_number' = gen_num
  /\ UNCHANGED <<evaluated, registryVars, attack_patterns, adaptation_history, historyVars,
                 code_iteration_count, max_generations, gen, breakthroughs,
                 metrics_history, faults, directs, last_call, suite_results>>

\* run_generation called by a client of the orchestrator
RunGeneration ==
  /\ cycle = "off"
  /\ BeginGeneration(Len(evolution_log))
  /\ UNCHANGED cycle

\* PHASE 1 without the try/except of execute_attack and apply_defense: a
\* fault escapes and run_generation is left without a report
ExecuteTestsFaultEscapes ==
  /\ phase = "Executing"
  /\ \E fa \in FaultChoices(Len(attack_patterns), MaxEvents - (faults + directs)) :
       \E s \in {ExecuteSuite(Reg(defenses, request_count), attack_patterns,
                              generation_number, fa)} :
          /\ defenses' = s.reg.defs
          /\ request_count' = s.reg.rc
          /\ attack_patterns' = s.patterns
          /\ faults' = faults + NumFaults(fa)
          /\ IF NumFaults(fa) > 0
             THEN /\ report' = NoReport
                  /\ phase' = "Idle"
             ELSE /\ report' = [report EXCEPT !.exploits = s.exploits,
                                              !.attacks_blocked = s.blocked_count,
                                              !.attacks_total = s.total,
                                              !.fitness_score = FitnessScore(s.blocked_count, s.total)]
                  /\ phase' = "Analyzing"
  /\ UNCHANGED <<evaluated, generation_number, adaptation_history, historyVars,
                 code_iteration_count, cycleVars, directs, last_call, suite_results>>

\* PHASE 1: execute_suite and the fitness score
ExecuteTests ==
  /\ phase = "Executing"
  /\ \E fa \in FaultChoices(Len(attack_patterns), MaxEvents - (faults + directs)) :
       \E s \in {ExecuteSuite(Reg(defenses, request_count), attack_patterns,
                              generation_number, fa)} :
          /\ defenses' = s.reg.defs
          /\ request_count' = s.reg.rc
          /\ attack_patterns' = s.patterns
          /\ report' = [report EXCEPT !.exploits = s.exploits,
                                      !.attacks_blocked = s.blocked_count,
                                      !.attacks_total = s.total,
                                      !.fitness_score = FitnessScore(s.blocked_count, s.total)]
          /\ faults' = faults + NumFaults(fa)
  /\ phase' = "Analyzing"
  /\ UNCHANGED <<evaluated, generation_number, adaptation_history, historyVars,
                 code_iteration_count, cycleVars, directs, last_call, suite_results>>

\* PHASE 2: analyze_results
Analyze ==
  /\ phase = "Analyzing"
  /\ report' = [report EXCEPT !.issues = AnalyzeResults(report.exploits)]
  /\ phase' = "Adapting"
  /\ UNCHANGED <<evaluated, registryVars, attack_patterns, generation_number,
                 adaptation_history, historyVars, code_iteration_count,
                 cycleVars, faults, directs, last_call, suite_results>>

\* PHASE 3 and 4 with records that refer to their patterns: the difficulty
\* of a record follows the adaptation of its pattern
AdaptRecordsFollowPatterns ==
  /\ phase = "Adapting"
  /\ \E order \in Orders(FailedDefenses(report.exploits)) :
       LET d == ApplyDefensiveAdaptations(defenses, report.exploits, order)
       IN /\ defenses' = d.defs
          /\ report' = [report EXCEPT
                          !.code_iterations = d.fixes,
                          !.exploits =
                             [i \in DOMAIN report.exploits |->
                                [report.exploits[i] EXCEPT
                                   !.difficulty = AdaptPattern(attack_patterns[i]).difficulty]]]
          /\ code_iteration_count' = code_iteration_count + d.fixes
  /\ attack_patterns' = AdaptPatterns(attack_patterns)
  /\ adaptation_history' = adaptation_history \o AdaptationEntries(attack_patterns)
  /\ phase' = "Snapshotting"
  /\ UNCHANGED <<evaluated, request_count, generation_number, historyVars, cycleVars,
                 faults, directs, last_call, suite_results>>

\* PHASE 3 and 4 where strengthening a defense clears the success count of
\* the patterns that target it before adapt_patterns reads them
AdaptDefenseResetsPatterns ==
  /\ phase = "Adapting"
  /\ \E order \in Orders(FailedDefenses(report.exploits)) :
       LET d == ApplyDefensiveAdaptations(defenses, report.exploits, order)
       IN /\ defenses' = d.defs
          /\ report' = [report EXCEPT !.code_iterations = d.fixes]
          /\ code_iteration_count' = code_iteration_count + d.fixes
  /\ attack_patterns' =
       AdaptPatterns([i \in DOMAIN attack_patterns |->
                        IF attack_patterns[i].defense_type \in FailedDefenses(report.exploits)
                        THEN [attack_patterns[i] EXCEPT !.success_count = 0]
                        ELSE attack_patterns[i]])
  /\ adaptation_history' = adaptation_history \o AdaptationEntries(attack_patterns)
  /\ phase' = "Snapshotting"
  /\ UNCHANGED <<evaluated, request_count, generation_number, historyVars, cycleVars,
                 faults, directs, last_call, suite_results>>

\* PHASE 3 and 4: _apply_defensive_adaptations, then adapt_patterns
Adapt ==
  /\ phase = "Adapting"
  /\ \E order \in Orders(FailedDefenses(report.exploits)) :
       LET d == ApplyDefensiveAdaptations(defenses, report.exploits, order)
       IN /\ defenses' = d.defs
          /\ report' = [report EXCEPT !.code_iterations = d.fixes]
          /\ code_iteration_count' = code_iteration_count + d.fixes
  /\ attack_patterns' = AdaptPatterns(attack_patterns)
  /\ adaptation_history' = adaptation_history \o AdaptationEntries(attack_patterns)
  /\ phase' = "Snapshotting"
  /\ UNCHANGED <<evaluated, request_count, generation_number, historyVars, cycleVars,
                 faults, directs, last_call, suite_results>>

\* PHASE 5 without the record_evolution call: the seed's history and
\* generation field are left as they were
SnapshotWithoutRecordEvolution ==
  /\ phase = "Snapshotting"
  /\ evolution_log' =
       Append(evolution_log,
              [report EXCEPT !.defenses_snapshot = GetSnapshot(defenses),
                             !.phase = "verification"])
  /\ report' = NoReport
  /\ phase' = "Idle"
  /\ cycle' = IF cycle = "in_generation" THEN "after_generation" ELSE cycle
  /\ UNCHANGED <<evaluated, registryVars, attack_patterns, generation_number,
                 adaptation_history, code_iteration_count, max_generations,
                 gen, breakthroughs, metrics_history, faults, directs, last_call,
                 suite_results, evolution_history, seed_generation>>

\* PHASE 5: snapshot, append to the log, record_evolution, return
Snapshot ==
  /\ phase = "Snapshotting"
  /\ LET final == [report EXCEPT !.defenses_snapshot = GetSnapshot(defenses),
                                 !.phase = "verification"]
     IN /\ evolution_log' = Append(evolution_log, final)
        /\ evolution_history' = Append(evolution_history, final)
        /\ seed_generation' = final.generation
  /\ report' = NoReport
  /\ phase' = "Idle"
  /\ cycle' = IF cycle = "in_generation" THEN "after_generation" ELSE cycle
  /\ UNCHANGED <<evaluated, registryVars, attack_patterns, generation_number,
                 adaptation_history, code_iteration_count, max_generations,
                 gen, breakthroughs, metrics_history, faults, directs, last_call, suite_results>>

\* ---------------------------------------------------- run_evolution_cycle
\* run_evolution_cycle is called; the for loop is entered
StartCycle ==
  /\ cycle = "off"
  /\ phase = "Idle"
  /\ Len(evolution_log) + max_generations <= MaxLog
  /\ cycle' = "loop"
  /\ gen' = 0
  /\ UNCHANGED <<evaluated, registryVars, attack_patterns, generation_number,
                 adaptation_history, phase, report, historyVars,
                 code_iteration_count, max_generations, breakthroughs,
                 metrics_history, faults, directs, last_call, suite_results>>

\* loop body, first statement: report = self.run_generation(gen)
CycleRunGeneration ==
  /\ cycle = "loop"
  /\ BeginGeneration(gen)
  /\ cycle' = "in_generation"

\* print_evolution_summary, called when the loop is left: with a non-empty
\* log and no attack pattern its average difficulty divides by zero, and
\* run_evolution_cycle ends by raising instead of returning
EndOfCycle ==
  IF Len(evolution_log) > 0 /\ Len(attack_patterns) = 0 THEN "raised" ELSE "done"

\* a loop that runs one generation too many
NextIterationOffByOne == IF gen + 1 <= max_generations THEN "loop" ELSE EndOfCycle

\* the cycle state after the loop body of generation gen has run
NextIteration == IF gen + 1 < max_generations THEN "loop" ELSE EndOfCycle

\* loop body after run_generation returned: metrics, perfect-defense break,
\* stagnation check and breakthrough pass
CycleAfterGeneration ==
  /\ cycle = "after_generation"
  /\ LET r == evolution_log[Len(evolution_log)]
     IN /\ metrics_history' = Append(metrics_history, CollectGenerationMetrics(r))
        /\ IF PerfectDefense(r)
           THEN /\ cycle' = EndOfCycle
                /\ UNCHANGED <<defenses, breakthroughs, gen>>
           ELSE /\ IF gen > StagnationAfterGen /\ CheckStagnation(evolution_log)
                   THEN /\ defenses' = ApplyBreakthroughMutations(defenses, DefenseType)
                        /\ breakthroughs' = breakthroughs + 1
                   ELSE UNCHANGED <<defenses, breakthroughs>>
                /\ cycle' = NextIteration
                /\ gen' = IF gen + 1 < max_generations THEN gen + 1 ELSE gen
  /\ UNCHANGED <<evaluated, request_count, attack_patterns, generation_number,
                 adaptation_history, phase, report, historyVars,
                 code_iteration_count, max_generations, faults, directs, last_call, suite_results>>

\* ------------------------------------------------- direct registry calls
\* strengthen_defense on a registry whose snapshots are views of the live
\* DefenseConfig objects: the snapshots already stored in reports follow the
\* registry
StrengthenDefenseSharedSnapshot ==
  /\ cycle = "off" /\ phase = "Idle" /\ faults + directs < MaxEvents
  /\ \E c \in DirectCategories : \E amount \in Amounts :
       /\ defenses' = Strengthen(defenses, c, amount)
       /\ last_call' = Call("strengthen", c, FALSE, "")
  /\ directs' = directs + 1
  /\ evolution_log' =
       [k \in DOMAIN evolution_log |->
          [evolution_log[k] EXCEPT !.defenses_snapshot = GetSnapshot(defenses')]]
  /\ evolution_history' = evolution_log'
  /\ UNCHANGED <<evaluated, request_count, attack_patterns, generation_number,
                 adaptation_history, phase, report, seed_generation,
                 code_iteration_count, cycleVars, faults, suite_results>>

\* EvolvableSeed.strengthen_defense called by a client
StrengthenDefense ==
  /\ cycle = "off" /\ phase = "Idle" /\ faults + directs < MaxEvents
  /\ \E c \in DirectCategories : \E amount \in Amounts :
       /\ defenses' = Strengthen(defenses, c, amount)
       /\ last_call' = Call("strengthen", c, FALSE, "")
  /\ directs' = directs + 1
  /\ UNCHANGED <<evaluated, request_count, attack_patterns, generation_number,
                 adaptation_history, phase, report, historyVars,
                 code_iteration_count, cycleVars, faults, suite_results>>

\* EvolvableSeed.activate_defense called by a client
ActivateDefense ==
  /\ cycle = "off" /\ phase = "Idle" /\ faults + directs < MaxEvents
  /\ \E c \in DirectCategories :
       /\ defenses' = Activate(defenses, c)
       /\ last_call' = Call("activate", c, FALSE, "")
  /\ directs' = directs + 1
  /\ UNCHANGED <<evaluated, request_count, attack_patterns, generation_number,
                 adaptation_history, phase, report, historyVars,
                 code_iteration_count, cycleVars, faults, suite_results>>

\* payloads a client passes to test_defense
TestPayloads == {NonePayload, Pay("str", 5, FALSE, FALSE, FALSE, FALSE, FALSE), sql_injection}

\* EvolvableSeed.test_defense called by a client
TestDefense ==
  /\ cycle = "off" /\ phase = "Idle" /\ faults + directs < MaxEvents
  /\ \E c \in DirectCategories : \E v \in TestPayloads :
       \E fault \in IF faults + directs + 1 < MaxEvents THEN BOOLEAN ELSE {FALSE} :
         \E r \in {ApplyDefense(Reg(defenses, request_count), c, v, fault)} :
            /\ defenses' = r.reg.defs
            /\ request_count' = r.reg.rc
            /\ faults' = IF fault THEN faults + 1 ELSE faults
            /\ last_call' = Call("test", c, r.blocked, r.reason)
  /\ directs' = directs + 1
  /\ UNCHANGED <<evaluated, attack_patterns, generation_number, adaptation_history,
                 phase, report, historyVars, code_iteration_count, cycleVars, suite_results>>

Next ==
  \/ RunGeneration
  \/ ExecuteTests
  \/ Analyze
  \/ Adapt
  \/ Snapshot
  \/ StartCycle
  \/ CycleRunGeneration
  \/ CycleAfterGeneration
  \/ StrengthenDefense
  \/ ActivateDefense
  \/ TestDefense

Spec == Init /\ [][Next]_vars

\* ------------------------------------------------ the stagnation scenario
\* Largest number of generations of a scenario cycle.
MaxScenarioLog == 6

\* attacks blocked, out of 100, in the generations of the scenario
ScenarioFitness == {40, 41, 42, 43, 46}

\* run_generation(gen) inside the cycle, with the outcome of its suite given:
\* b of 100 attacks blocked. The report is appended as run_generation
\* appends it; the registry is left to the breakthrough pass.
ScenarioGeneration(b) ==
  /\ cycle = "loop"
  /\ phase = "Idle"
  /\ Len(evolution_log) < MaxScenarioLog
  /\ LET final == [NewGenerationReport(gen) EXCEPT
                     !.attacks_blocked = b, !.attacks_total = 100,
                     !.fitness_score = FitnessScore(b, 100),
                     !.defenses_snapshot = GetSnapshot(defenses),
                     !.phase = "verification"]
     IN /\ evolution_log' = Append(evolution_log, final)
        /\ evolution_history' = Append(evolution_history, final)
        /\ seed_generation' = final.generation
  /\ generation_number' = gen
  /\ cycle' = "after_generation"
  /\ UNCHANGED <<evaluated, registryVars, attack_patterns, adaptation_history, phase,
                 report, code_iteration_count, max_generations, gen,
                 breakthroughs, metrics_history, faults, directs, last_call, suite_results>>

ScenarioInit ==
  /\ Init
  /\ max_generations = DefaultMaxGenerations
  /\ Len(attack_patterns) = DefaultPopulation

ScenarioNext ==
  \/ StartCycle
  \/ \E b \in ScenarioFitness : ScenarioGeneration(b)
  \/ CycleAfterGeneration

SpecStagnation == ScenarioInit /\ [][ScenarioNext]_vars

\* run_generation and the loop body of run_evolution_cycle are synchronous
\* code: once entered, every step of them is taken.
\* At most one of these steps is enabled in a state: the position of the
\* call in progress selects it.
Running ==
  \/ ExecuteTests
  \/ Analyze
  \/ Adapt
  \/ Snapshot
  \/ CycleRunGeneration
  \/ CycleAfterGeneration

FairSpec == Spec /\ WF_vars(Running)

\* ------------------------------------------- analysis and adaptation alone
\* analyze_results, _apply_defensive_adaptations and adapt_patterns take any
\* list of Exploit records and any pattern statistics; the catalog gives a
\* category at most two patterns, so lists with three failures of one
\* category, and patterns with chosen statistics, are drawn here.
MaxUnitExploits == 4
MaxUnitAttempts == 5

UnitVectors ==
  {INPUT_VALIDATION, SANITIZATION, BOUNDS_ENFORCEMENT, STATE_PROTECTION}

\* Exploit(vector, ..., blocked, defense_reason)
UnitExploit(c, b) ==
  [vector |-> c, description |-> "attack", payload |-> NonePayload,
   severity |-> "LOW", difficulty |-> 1, blocked |-> b,
   defense_reason |-> IF b THEN "Blocked" ELSE "Passed"]

ExploitInputs ==
  UNION {[1..n -> {UnitExploit(c, b) : c \in UnitVectors, b \in BOOLEAN}] :
           n \in 0..MaxUnitExploits}

\* the catalog patterns that target five different categories
UnitGenerators == {1, 3, 5, 6, 8}

\* AttackPattern with chosen difficulty, success_count and attempt_count
PatternInputs ==
  {[InitializePatterns(Len(Catalog))[t[1]] EXCEPT
      !.attempt_count = t[2], !.success_count = t[3],
      !.difficulty = IF t[4] = 0 THEN @ ELSE t[4]] :
     t \in {u \in UnitGenerators \X (0..MaxUnitAttempts) \X (0..MaxUnitAttempts)
                    \X {0, MaxDifficulty - 1, MaxDifficulty} : u[3] <= u[2]}}

\* run_generation stands after PHASE 1 with the drawn records in the report,
\* or with one drawn pattern in the executor
UnitInit ==
  /\ \E s \in InitialStrengths : defenses = InitializeDefenses(s)
  /\ request_count = 0
  /\ generation_number = 1
  /\ adaptation_history = << >>
  /\ phase = "Analyzing"
  /\ \/ /\ attack_patterns = << >>
        /\ \E e \in ExploitInputs :
             report = [NewGenerationReport(0) EXCEPT
                         !.exploits = e,
                         !.attacks_blocked = CountBlocked(e, Len(e)),
                         !.attacks_total = Len(e),
                         !.fitness_score = FitnessScore(CountBlocked(e, Len(e)), Len(e))]
     \/ /\ \E p \in PatternInputs : attack_patterns = <<p>>
        /\ report = NewGenerationReport(0)
  /\ evolution_log = << >>
  /\ evolution_history = << >>
  /\ seed_generation = 0
  /\ metrics_history = << >>
  /\ code_iteration_count = 0
  /\ max_generations = DefaultMaxGenerations
  /\ cycle = "off"
  /\ gen = 0
  /\ breakthroughs = 0
  /\ faults = 0
  /\ directs = 0
  /\ last_call = NoCall
  /\ suite_results = << >>
  /\ evaluated = NonePayload

UnitNext ==
  \/ Analyze
  \/ Adapt

SpecAdaptation == UnitInit /\ [][UnitNext]_vars

\* ------------------------------------------- the monotonicity scenario
\* test_defense_strengthening_effect: a client runs execute_suite on a fresh
\* seed, strengthens every DefenseType member by 5 and runs execute_suite
\* again. The shipped generators and evaluators raise nothing, so no fault is
\* injected here.
TestStrengthenAmount == 5

\* for defense_type in DefenseType: strengthen_defense(defense_type, amount)
RECURSIVE StrengthenAll(_, _, _)
StrengthenAll(defs, S, amount) ==
  IF S = {} THEN defs
  ELSE Only({Only({StrengthenAll(d, rest, amount) :
                     d \in {Strengthen(defs, c, amount)}, rest \in {S \ {c}}}) :
               c \in {CHOOSE x \in S : TRUE}})

\* a fresh seed, executor and orchestrator, for every initial strength 1..10
\* and every population size 0..9; no fault will be injected
FreshInit ==
  /\ \E s \in 1..MaxStrength : defenses = InitializeDefenses(s)
  /\ request_count = 0
  /\ \E n \in 0..Len(Catalog) : attack_patterns = InitializePatterns(n)
  /\ generation_number = 0
  /\ adaptation_history = << >>
  /\ phase = "Idle"
  /\ report = NoReport
  /\ evolution_log = << >>
  /\ evolution_history = << >>
  /\ seed_generation = 0
  /\ metrics_history = << >>
  /\ code_iteration_count = 0
  /\ max_generations = DefaultMaxGenerations
  /\ cycle = "off"
  /\ gen = 0
  /\ breakthroughs = 0
  /\ faults = MaxEvents
  /\ directs = 0
  /\ last_call = NoCall
  /\ suite_results = << >>
  /\ evaluated = NonePayload

\* exploits, blocked, total = red_team.execute_suite(), before the
\* strengthening and after it
ClientExecuteSuite ==
  /\ \/ suite_results = << >> /\ directs = 0
     \/ Len(suite_results) = 1 /\ directs = Cardinality(DefenseType)
  /\ \E s \in {ExecuteSuite(Reg(defenses, request_count), attack_patterns,
                            generation_number,
                            [i \in 1..Len(attack_patterns) |-> "ok"])} :
       /\ defenses' = s.reg.defs
       /\ request_count' = s.reg.rc
       /\ attack_patterns' = s.patterns
       /\ suite_results' = Append(suite_results, s.blocked_count)
  /\ UNCHANGED <<evaluated, generation_number, adaptation_history, phase, report,
                 historyVars, code_iteration_count, cycleVars, faults, directs,
                 last_call>>

\* the loop that strengthens every DefenseType member
ClientStrengthenAll ==
  /\ Len(suite_results) = 1 /\ directs = 0
  /\ defenses' = StrengthenAll(defenses, DefenseType, TestStrengthenAmount)
  /\ directs' = directs + Cardinality(DefenseType)
  /\ UNCHANGED <<evaluated, request_count, attack_patterns, generation_number,
                 adaptation_history, phase, report, historyVars,
                 code_iteration_count, cycleVars, faults, last_call,
                 suite_results>>

MonotonicNext ==
  \/ ClientExecuteSuite
  \/ ClientStrengthenAll

SpecMonotonic == FreshInit /\ [][MonotonicNext]_vars

\* ----------------------------------------- consecutive generations alone
\* test_fitness_improvement: a client calls run_generation with indices
\* 0, 1, 2, ... on a fresh orchestrator
RunNext ==
  \/ RunGeneration
  \/ ExecuteTests
  \/ Analyze
  \/ Adapt
  \/ Snapshot

SpecRun == FreshInit /\ [][RunNext]_vars

\* ------------------------------------------- the suite on reordered lists
\* longest pattern list whose arrangements are enumerated
MaxOrderLen == 4

\* the catalog rows a reordered list is drawn from: two input-validation
\* patterns and one each for three other categories
OrderGenerators == {1, 2, 3, 6, 8}

\* the bijections of 1..n
Bijections(n) ==
  {f \in [1..n -> 1..n] : \A i, j \in 1..n : f[i] = f[j] => i = j}

\* the list (or fault assignment) seq visited in the order f
Permute(seq, f) == [i \in 1..Len(seq) |-> seq[f[i]]]

\* executor.attack_patterns holding MaxOrderLen or fewer distinct catalog
\* patterns in any order
OrderedPatternLists ==
  UNION {{[i \in 1..n |-> InitializePatterns(Len(Catalog))[g[i]]] :
            g \in {h \in [1..n -> OrderGenerators] :
                     \A i, j \in 1..n : h[i] = h[j] => i = j}} :
         n \in 0..MaxOrderLen}

\* what execute_suite returns and leaves in the registry, without the order
\* of the records: blocked, total and every category's counters
SuiteAggregates(s) ==
  [blocked |-> s.blocked_count, total |-> s.total,
   counters |-> [c \in DOMAIN s.reg.defs |->
                   <<s.reg.defs[c].times_triggered,
                     s.reg.defs[c].successful_blocks>>]]

\* a fresh seed whose executor holds a drawn pattern list
OrderInit ==
  /\ \E s \in InitialStrengths : defenses = InitializeDefenses(s)
  /\ request_count = 0
  /\ attack_patterns \in OrderedPatternLists
  /\ generation_number = 0
  /\ adaptation_history = << >>
  /\ phase = "Idle"
  /\ report = NoReport
  /\ evolution_log = << >>
  /\ evolution_history = << >>
  /\ seed_generation = 0
  /\ metrics_history = << >>
  /\ code_iteration_count = 0
  /\ max_generations = DefaultMaxGenerations
  /\ cycle = "off"
  /\ gen = 0
  /\ breakthroughs = 0
  /\ faults = MaxEvents
  /\ directs = 0
  /\ last_call = NoCall
  /\ suite_results = << >>
  /\ evaluated = NonePayload

SpecOrder == OrderInit /\ [][MonotonicNext]_vars

\* ------------------------------------------------- the rate limiter alone
\* evaluations of the rate limiter in one behaviour: two periods at
\* strength 5 (2 * 11) and one at strength 10 (21)
MaxRateCalls == 23

\* strengthen calls made after the first evaluation
MaxRateStrengthens == 1

\* the value handed to the rate limiter, which does not look at it
RatePayloads == {Pay("str", 5, FALSE, FALSE, FALSE, FALSE, FALSE)}

\* framework.defenses[RATE_LIMITING].execute(value) called on the mechanism
\* itself, as the unit tests call execute
RateExecute ==
  /\ defenses[RATE_LIMITING].times_triggered < MaxRateCalls
  /\ \E v \in RatePayloads :
       \E r \in {DefenseExecute(Reg(defenses, request_count), RATE_LIMITING, v)} :
         /\ defenses' = r.reg.defs
         /\ request_count' = r.reg.rc
         /\ last_call' = Call("execute", RATE_LIMITING, r.blocked, r.reason)
         /\ evaluated' = v
  /\ UNCHANGED <<attack_patterns, generation_number, adaptation_history,
                 phase, report, historyVars, code_iteration_count, cycleVars,
                 faults, directs, suite_results>>

\* apply_defense(RATE_LIMITING, value): the call through the registry
RateApply ==
  /\ defenses[RATE_LIMITING].times_triggered < MaxRateCalls
  /\ \E v \in RatePayloads :
       \E r \in {ApplyDefense(Reg(defenses, request_count), RATE_LIMITING, v, FALSE)} :
         /\ defenses' = r.reg.defs
         /\ request_count' = r.reg.rc
         /\ last_call' = Call("test", RATE_LIMITING, r.blocked, r.reason)
  /\ UNCHANGED <<evaluated, attack_patterns, generation_number,
                 adaptation_history, phase, report, historyVars,
                 code_iteration_count, cycleVars, faults, directs,
                 suite_results>>

\* activate(RATE_LIMITING)
RateActivate ==
  /\ defenses' = Activate(defenses, RATE_LIMITING)
  /\ last_call' = Call("activate", RATE_LIMITING, FALSE, "")
  /\ UNCHANGED <<evaluated, request_count, attack_patterns, generation_number,
                 adaptation_history, phase, report, historyVars,
                 code_iteration_count, cycleVars, faults, directs,
                 suite_results>>

\* strengthen(RATE_LIMITING, amount); directs counts the calls made once the
\* limiter has evaluated a request
RateStrengthen ==
  /\ defenses[RATE_LIMITING].strength < MaxStrength
  /\ defenses[RATE_LIMITING].times_triggered > 0 => directs < MaxRateStrengthens
  /\ \E amount \in Amounts :
       defenses' = Strengthen(defenses, RATE_LIMITING, amount)
  /\ directs' = IF defenses[RATE_LIMITING].times_triggered > 0
                THEN directs + 1 ELSE directs
  /\ last_call' = Call("strengthen", RATE_LIMITING, FALSE, "")
  /\ UNCHANGED <<evaluated, request_count, attack_patterns, generation_number,
                 adaptation_history, phase, report, historyVars,
                 code_iteration_count, cycleVars, faults, suite_results>>

RateNext ==
  \/ RateExecute
  \/ RateApply
  \/ RateActivate
  \/ RateStrengthen

\* a fresh seed with the default configuration
RateInit ==
  /\ FreshInit
  /\ defenses = InitializeDefenses(DefaultStrength)
  /\ attack_patterns = InitializePatterns(DefaultPopulation)

SpecRateLimit == RateInit /\ [][RateNext]_vars

\* --------------------------------------------- the mechanisms one by one
\* execute calls in one behaviour
MaxEvalCalls == 2

\* string lengths and collection sizes around the limits 23 (strength 1),
\* 38 (strength 6) and 50 (strength 10) and their halves
EvalLengths == {0, 11, 12, 19, 20, 23, 24, 25, 26, 30, 38, 39, 50, 51, 200}

\* the values handed to execute: None, numbers, an object, plain strings and
\* collections of the lengths above, and the catalog payloads
EvalPayloads ==
  {NonePayload,
   Pay("int", 0, FALSE, FALSE, FALSE, FALSE, FALSE),
   Pay("object", 0, FALSE, TRUE, FALSE, FALSE, FALSE),
   Pay("str", 21, FALSE, TRUE, FALSE, FALSE, FALSE),
   Pay("str", 21, FALSE, FALSE, FALSE, FALSE, TRUE)}
    \cup {Pay(k, n, FALSE, FALSE, FALSE, FALSE, FALSE) :
            k \in {"str", "tuple"}, n \in EvalLengths}
    \cup {Pay(k, n, FALSE, TRUE, FALSE, FALSE, FALSE) :
            k \in {"list", "dict"}, n \in EvalLengths}
    \cup {Generate(g, 0) : g \in 1..Len(Catalog)}

\* DefenseConfig(category, strength = s) and its mechanism, one per defense
\* class, as the unit tests build them
MechanismInit ==
  /\ \E s \in 1..MaxStrength :
       defenses = [c \in Registered |-> NewDefenseConfig(TRUE, s)]
  /\ request_count = 0
  /\ attack_patterns = << >>
  /\ generation_number = 0
  /\ adaptation_history = << >>
  /\ phase = "Idle"
  /\ report = NoReport
  /\ evolution_log = << >>
  /\ evolution_history = << >>
  /\ seed_generation = 0
  /\ metrics_history = << >>
  /\ code_iteration_count = 0
  /\ max_generations = DefaultMaxGenerations
  /\ cycle = "off"
  /\ gen = 0
  /\ breakthroughs = 0
  /\ faults = 0
  /\ directs = 0
  /\ last_call = NoCall
  /\ suite_results = << >>
  /\ evaluated = NonePayload

\* defense.execute(value) on one of the mechanisms
MechanismExecute ==
  /\ directs < MaxEvalCalls
  /\ \E c \in Registered : \E v \in EvalPayloads :
       \E r \in {DefenseExecute(Reg(defenses, request_count), c, v)} :
         /\ defenses' = r.reg.defs
         /\ request_count' = r.reg.rc
         /\ last_call' = Call("execute", c, r.blocked, r.reason)
         /\ evaluated' = v
  /\ directs' = directs + 1
  /\ UNCHANGED <<attack_patterns, generation_number, adaptation_history,
                 phase, report, historyVars, code_iteration_count, cycleVars,
                 faults, suite_results>>

SpecEvaluate == MechanismInit /\ [][MechanismExecute]_vars

\* ------------------------------------------------------------------ claims
Last(seq) == seq[Len(seq)]

\* C1: in every reachable state the strength of every defense category lies
\* in [1,10], whatever strengthen calls (direct, +2 adaptation, +3
\* breakthrough) have been made.
C1_StrengthInRange ==
  \A c \in DOMAIN defenses :
    defenses[c].strength >= 1 /\ defenses[c].strength <= 10

\* a strengthen call was clamped: a category sits at 10 after a direct call
\* and breakthrough passes
C1_Witness ==
  /\ breakthroughs > 1
  /\ directs > 0
  /\ \E c \in DOMAIN defenses : defenses[c].strength = 10

\* C2: in every reachable state and for every category,
\* successful_blocks + false_positives = times_triggered.
C2_TriggerAccounting ==
  \A c \in DOMAIN defenses :
    defenses[c].successful_blocks + defenses[c].false_positives
      = defenses[c].times_triggered

\* a category has recorded both a block and a pass
C2_Witness ==
  \E c \in DOMAIN defenses :
    defenses[c].successful_blocks > 0 /\ defenses[c].false_positives > 0

\* C3: in every reachable state the difficulty of every attack pattern lies
\* in [1,10], after any number of generations of attack adaptation.
C3_DifficultyInRange ==
  \A i \in DOMAIN attack_patterns :
    attack_patterns[i].difficulty >= 1 /\ attack_patterns[i].difficulty <= 10

\* C4: in every reachable state every attack pattern has
\* 0 <= success_count <= attempt_count.
C4_SuccessAtMostAttempts ==
  \A i \in DOMAIN attack_patterns :
    /\ 0 <= attack_patterns[i].success_count
    /\ attack_patterns[i].success_count <= attack_patterns[i].attempt_count

\* a pattern has both succeeded and failed
C4_Witness ==
  \E i \in DOMAIN attack_patterns :
    /\ 0 < attack_patterns[i].success_count
    /\ attack_patterns[i].success_count < attack_patterns[i].attempt_count

\* what C5 requires of one report
C5_ReportOk(r) ==
  /\ 0 <= r.fitness_score.num
  /\ r.fitness_score.num <= 100 * r.fitness_score.den
  /\ r.fitness_score.den > 0
  /\ 0 <= r.attacks_blocked
  /\ r.attacks_blocked <= r.attacks_total
  /\ IF r.attacks_total = 0 THEN r.fitness_score.num = 0
     ELSE r.fitness_score.num * r.attacks_total
            = r.attacks_blocked * 100 * r.fitness_score.den
  /\ (r.issues /= << >>) <=> (r.attacks_blocked < r.attacks_total)

\* C5: every report run_generation produces has 0 <= fitness <= 100,
\* 0 <= blocked <= total, fitness = blocked/total*100 (0 when total = 0) and
\* a non-empty issues list exactly when blocked < total.
C5_ReportWellFormed ==
  \A k \in DOMAIN evolution_log : C5_ReportOk(evolution_log[k])

\* a report of a generation in which some but not all attacks were blocked
C5_Witness ==
  \E k \in DOMAIN evolution_log :
    /\ 0 < evolution_log[k].attacks_blocked
    /\ evolution_log[k].attacks_blocked < evolution_log[k].attacks_total
    /\ evolution_log[k].issues /= << >>

\* the step of run_generation that runs execute_suite
C6_SuiteStep == phase = "Executing" /\ phase' = "Analyzing"

\* C6: execute_suite runs every pattern exactly once, in registry order: one
\* record per pattern in that order, total = number of patterns, blocked
\* count = number of blocked records, and every attempt_count grows by 1.
C6_SuiteRunsEachPatternOnce ==
  [][C6_SuiteStep =>
       /\ Len(report'.exploits) = Len(attack_patterns)
       /\ Len(attack_patterns') = Len(attack_patterns)
       /\ report'.attacks_total = Len(attack_patterns)
       /\ report'.attacks_blocked
            = Cardinality({i \in DOMAIN report'.exploits : report'.exploits[i].blocked})
       /\ \A i \in DOMAIN attack_patterns :
            /\ report'.exploits[i].description = attack_patterns[i].description
            /\ report'.exploits[i].vector = attack_patterns[i].defense_type
            /\ attack_patterns'[i].description = attack_patterns[i].description
            /\ attack_patterns'[i].attempt_count = attack_patterns[i].attempt_count + 1
            /\ attack_patterns'[i].success_count
                 = attack_patterns[i].success_count
                     + (IF report'.exploits[i].blocked THEN 0 ELSE 1)]_vars

\* a suite of several patterns has just run, one of them not blocked
C6_Witness ==
  /\ phase = "Analyzing"
  /\ Len(report.exploits) = DefaultPopulation
  /\ \E i \in DOMAIN report.exploits : ~report.exploits[i].blocked
  /\ \A i \in DOMAIN attack_patterns : attack_patterns[i].attempt_count = 2

\* the phase changes run_generation may make
C7_PhaseOrder ==
  {<<"Idle", "Executing">>, <<"Executing", "Analyzing">>,
   <<"Analyzing", "Adapting">>, <<"Adapting", "Snapshotting">>,
   <<"Snapshotting", "Idle">>}

\* C7: every run_generation call passes through Executing, Analyzing,
\* Adapting and Snapshotting in that order and returns to Idle with its
\* report appended, also when generators or evaluations fault.
C7_GenerationCompletes ==
  /\ [][/\ phase' /= phase => <<phase, phase'>> \in C7_PhaseOrder
        /\ phase = "Executing" /\ phase' = "Analyzing"
             => Len(report'.exploits) = Len(attack_patterns)
        /\ phase = "Snapshotting" /\ phase' = "Idle"
             => /\ Len(evolution_log') = Len(evolution_log) + 1
                /\ Last(evolution_log').generation = generation_number
                /\ Last(evolution_log').exploits = report.exploits]_vars
  /\ (phase = "Executing") ~> (phase = "Idle")

\* a generation in which a defense evaluation faulted has returned its report
C7_Witness ==
  /\ phase = "Idle"
  /\ faults > 0
  /\ evolution_log /= << >>
  /\ \E i \in DOMAIN Last(evolution_log).exploits :
       Last(evolution_log).exploits[i].defense_reason = "Defense execution error"

\* the cycle has ended, by returning or by raising in its summary
C8_Ended == cycle \in {"done", "raised"}

\* a metrics entry of a generation in which every attack was blocked
C8_Perfect(m) == m.attacks_total > 0 /\ m.attacks_blocked = m.attacks_total

\* C8: run_evolution_cycle always terminates; its generations have the
\* consecutive indices 0, 1, 2, ..., there are at most max_generations of
\* them, none (and no breakthrough pass) follows the first generation whose
\* fitness is 100, and otherwise the cycle ends on reaching max_generations.
C8_CycleTerminates ==
  /\ [](/\ Len(metrics_history) <= max_generations
        /\ \A k \in DOMAIN metrics_history : metrics_history[k].generation = k - 1
        /\ \A k \in 1..(Len(metrics_history) - 1) : ~C8_Perfect(metrics_history[k])
        /\ cycle \in {"loop", "in_generation"}
             => /\ gen = Len(metrics_history)
                /\ gen < max_generations
                /\ metrics_history /= << >> => ~C8_Perfect(Last(metrics_history))
        /\ C8_Ended
             => /\ metrics_history /= << >>
                /\ \/ C8_Perfect(Last(metrics_history))
                   \/ Len(metrics_history) = max_generations)
  /\ [][cycle = "after_generation"
          /\ Last(evolution_log).attacks_total > 0
          /\ Last(evolution_log).attacks_blocked = Last(evolution_log).attacks_total
          => /\ cycle' \in {"done", "raised"}
             /\ breakthroughs' = breakthroughs
             /\ defenses' = defenses]_vars
  /\ (cycle = "loop") ~> C8_Ended

\* a cycle stopped early, by a perfect generation after an imperfect one
C8_Witness ==
  /\ cycle = "done"
  /\ max_generations = DefaultMaxGenerations
  /\ Len(metrics_history) = 2
  /\ C8_Perfect(metrics_history[2])

\* the first four generations had fitness 40, 42, 41, 43
C9_FirstFour ==
  /\ Len(evolution_log) >= 4
  /\ \A k \in 1..4 : /\ evolution_log[k].attacks_total = 100
                     /\ evolution_log[k].generation = k - 1
  /\ <<evolution_log[1].attacks_blocked, evolution_log[2].attacks_blocked,
       evolution_log[3].attacks_blocked, evolution_log[4].attacks_blocked>>
       = <<40, 42, 41, 43>>

\* every category's strength is its initial strength raised by 3 per
\* breakthrough pass, capped at 10
C9_StrengthsRaised(n) ==
  \E s \in InitialStrengths :
    \A c \in DOMAIN defenses :
      defenses[c].strength
        = Min(10, (IF c \in InitiallyActive THEN s ELSE 1) + 3 * n)

C10_Fitness(r) ==
  IF r.attacks_total = 0 THEN <<0, 1>> ELSE <<100 * r.attacks_blocked, r.attacks_total>>

\* the last three reports lie within a range below 5
C10_TailStagnant ==
  /\ Len(evolution_log) >= 4
  /\ \A i, j \in (Len(evolution_log) - 2)..Len(evolution_log) :
       LET a == C10_Fitness(evolution_log[i])
           b == C10_Fitness(evolution_log[j])
       IN a[1] * b[2] - b[1] * a[2] < 5 * a[2] * b[2]

\* C10 as stated: within one run_evolution_cycle the breakthrough pass is
\* applied at most once.
C10_AtMostOnce == breakthroughs <= 1

\* C10 amended: the pass is applied once after every generation of the cycle
\* with index > 3 that is not perfect and whose last three fitness scores
\* span less than 5, and at no other time; so at most max_generations - 4
\* times in a cycle.
C10_OncePerStagnantGeneration ==
  /\ [][breakthroughs'
          = breakthroughs
              + (IF /\ cycle = "after_generation"
                    /\ gen > 3
                    /\ C10_Fitness(Last(evolution_log))[1]
                         < 100 * C10_Fitness(Last(evolution_log))[2]
                    /\ C10_TailStagnant
                 THEN 1 ELSE 0)]_vars
  /\ [](breakthroughs <= (IF max_generations > 4 THEN max_generations - 4 ELSE 0))

\* the pass has been applied a second time in one cycle
C10_Witness == breakthroughs = 2 /\ cycle = "loop"

\* a step that is a direct test_defense call on category c
C11_TestCall(c) ==
  /\ directs' = directs + 1
  /\ last_call'.op = "test"
  /\ last_call'.category = c

\* C11: executing a payload against a registered but inactive category
\* returns (FALSE, "Defense inactive"), skips the evaluation (the rate
\* limiter's request_count does not move) and leaves the counters of that
\* category and the state of every other category unchanged.
C11_InactiveIsSkipped ==
  [][\A c \in DOMAIN defenses :
       C11_TestCall(c) /\ ~defenses[c].active
         => /\ last_call'.blocked = FALSE
            /\ last_call'.reason = "Defense inactive"
            /\ defenses' = defenses
            /\ request_count' = request_count]_vars

\* test_defense has been called on the inactive rate limiter
C11_Witness ==
  /\ last_call = Call("test", RATE_LIMITING, FALSE, "Defense inactive")
  /\ ~defenses[RATE_LIMITING].active
  /\ defenses[RATE_LIMITING].times_triggered = 0

\* a step that is a direct call on a category the registry does not hold
C12_UnknownCall ==
  /\ directs' = directs + 1
  /\ last_call'.category \notin DOMAIN defenses

\* C12: evaluating, activating or strengthening a category that is not
\* registered (logic hardening, anomaly detection) returns normally:
\* evaluation gives (FALSE, "Defense not found") and all three operations
\* leave the whole registry unchanged.
C12_UnknownCategoryIsNoOp ==
  /\ [][C12_UnknownCall
          => /\ last_call'.op \in {"test", "activate", "strengthen"}
             /\ last_call'.op = "test"
                  => last_call'.blocked = FALSE /\ last_call'.reason = "Defense not found"
             /\ defenses' = defenses
             /\ request_count' = request_count]_vars
  /\ [](\A c \in DefenseType \ Registered :
          /\ c \notin DOMAIN defenses
          /\ Activate(defenses, c) = defenses
          /\ \A amount \in Amounts : Strengthen(defenses, c, amount) = defenses
          /\ \A v \in TestPayloads : \A fault \in BOOLEAN :
               ApplyDefense(Reg(defenses, request_count), c, v, fault)
                 = [blocked |-> FALSE, reason |-> "Defense not found",
                    reg |-> Reg(defenses, request_count)])

\* test_defense has been called on the unregistered logic hardening
C12_Witness ==
  /\ last_call = Call("test", LOGIC_HARDENING, FALSE, "Defense not found")
  /\ DOMAIN defenses = Registered

\* record i of the suite that has just run reports a raised evaluation
C13_Raised(i) == report'.exploits[i].defense_reason = "Defense execution error"

\* C13: a fault raised while evaluating an active defense is caught by
\* apply_defense: the call returns (FALSE, "Defense execution error"), the
\* suite goes on to its end, the attack counts as a success of its pattern,
\* and the category's counters see no trigger for it.
C13_EvaluationFaultIsCaught ==
  [][/\ C6_SuiteStep
          => /\ \A i \in DOMAIN report'.exploits :
                  C13_Raised(i)
                    => /\ ~report'.exploits[i].blocked
                       /\ defenses[attack_patterns[i].defense_type].active
                       /\ attack_patterns'[i].attempt_count
                            = attack_patterns[i].attempt_count + 1
                       /\ attack_patterns'[i].success_count
                            = attack_patterns[i].success_count + 1
             /\ Len(report'.exploits) = Len(attack_patterns)
             /\ \A c \in DOMAIN defenses :
                  defenses'[c].times_triggered
                    = defenses[c].times_triggered
                        + Cardinality({i \in DOMAIN report'.exploits :
                                         /\ report'.exploits[i].vector = c
                                         /\ defenses[c].active
                                         /\ ~C13_Raised(i)})
     /\ last_call'.reason = "Defense execution error" /\ last_call' /= last_call
          => ~last_call'.blocked /\ defenses' = defenses]_vars

\* a suite has just run in which an evaluation raised; the pattern has its
\* success
C13_Witness ==
  /\ phase = "Analyzing"
  /\ \E i \in DOMAIN report.exploits :
       /\ report.exploits[i].defense_reason = "Defense execution error"
       /\ ~report.exploits[i].blocked
       /\ attack_patterns[i].success_count = 1
  /\ Len(report.exploits) > 1

\* pattern i of the suite that has just run got the absent payload although
\* its generator does not produce it: the generator raised
C14_GeneratorRaised(i) ==
  /\ report'.exploits[i].payload = NonePayload
  /\ Generate(attack_patterns[i].generator, generation_number) /= NonePayload

\* the verdicts the evaluators give
C14_Verdicts ==
  {"Rejected: null value", "Passed type check", "Passed bounds check",
   "Passed sanitization", "Passed state protection", "Defense execution error"}

\* C14: when a pattern's payload generator raises, execute_attack goes on
\* with the payload None: it is evaluated against the pattern's target
\* category (the category records the trigger), the pattern records exactly
\* one attempt, a record is returned for it, and the other patterns of the
\* suite are executed as well.
C14_GeneratorFaultIsSubstituted ==
  [][C6_SuiteStep
       => \A i \in DOMAIN attack_patterns :
            C14_GeneratorRaised(i)
              => /\ Len(report'.exploits) = Len(attack_patterns)
                 /\ report'.exploits[i].vector = attack_patterns[i].defense_type
                 /\ report'.exploits[i].defense_reason \in C14_Verdicts
                 /\ report'.exploits[i].blocked
                      = (attack_patterns[i].defense_type = INPUT_VALIDATION
                           /\ report'.exploits[i].defense_reason = "Rejected: null value")
                 /\ attack_patterns'[i].attempt_count
                      = attack_patterns[i].attempt_count + 1
                 /\ report'.exploits[i].defense_reason /= "Defense execution error"
                      => defenses'[attack_patterns[i].defense_type].times_triggered
                           > defenses[attack_patterns[i].defense_type].times_triggered
                 /\ \A j \in DOMAIN attack_patterns :
                      attack_patterns'[j].attempt_count
                        = attack_patterns[j].attempt_count + 1]_vars

\* a suite has just run in which the generator of the buffer overflow
\* pattern raised; None passed the bounds check
C14_Witness ==
  /\ phase = "Analyzing"
  /\ Len(report.exploits) = DefaultPopulation
  /\ report.exploits[5].payload = NonePayload
  /\ report.exploits[5].defense_reason = "Passed bounds check"
  /\ attack_patterns[5].success_count = 1
  /\ report.exploits[6].blocked

\* the step that is PHASE 2 of run_generation (analyze_results)
C15_AnalyzeStep == phase = "Analyzing" /\ phase' = "Adapting"

\* the records of the analysed list that were not blocked and target c
C15_Failures(c) ==
  {j \in DOMAIN report.exploits :
     ~report.exploits[j].blocked /\ report.exploits[j].vector = c}

\* C15: analysis emits exactly one issue for every category that has at
\* least one not-blocked record and none for any other category (so no issue
\* for an empty list); the issue is CRITICAL when that category has more
\* than two not-blocked records (three different records can be named) and
\* HIGH otherwise.
C15_OneIssuePerFailedCategory ==
  [][C15_AnalyzeStep =>
       /\ \A c \in DefenseType :
            Cardinality({k \in DOMAIN report'.issues :
                           report'.issues[k].affected_defense = c})
              = (IF C15_Failures(c) /= {} THEN 1 ELSE 0)
       /\ \A k \in DOMAIN report'.issues :
            LET c == report'.issues[k].affected_defense
                three == \E j1, j2, j3 \in C15_Failures(c) :
                           j1 < j2 /\ j2 < j3
            IN /\ report'.issues[k].issue_type = "DEFENSE_FAILURE"
               /\ report'.issues[k].severity = (IF three THEN "CRITICAL" ELSE "HIGH")
       /\ (report.exploits = << >> => report'.issues = << >>)]_vars

\* an analysis of three records that all got through sanitization: one
\* CRITICAL issue
C15_Witness ==
  /\ phase = "Adapting"
  /\ Len(report.exploits) = MaxUnitExploits
  /\ Len(report.issues) = 1
  /\ report.issues[1].severity = "CRITICAL"
  /\ report.issues[1].affected_defense = SANITIZATION

\* the step that is PHASE 3 and 4 of run_generation
\* (_apply_defensive_adaptations, then adapt_patterns)
C16_AdaptStep == phase = "Adapting" /\ phase' = "Snapshotting"

\* category c has a not-blocked record in the list being adapted to
C16_Failed(c) ==
  \E j \in DOMAIN report.exploits :
     ~report.exploits[j].blocked /\ report.exploits[j].vector = c

\* C16: after the adaptation step every failed category has strength
\* min(10, old + 2), whatever the number of its failures, and every category
\* without a failure keeps its strength.
C16_FailedAreStrengthened ==
  [][C16_AdaptStep =>
       /\ DOMAIN defenses' = DOMAIN defenses
       /\ \A c \in DOMAIN defenses :
            defenses'[c].strength =
              (IF C16_Failed(c)
               THEN Min(MaxStrength, defenses[c].strength + AdaptIncrement)
               ELSE defenses[c].strength)]_vars

\* after an adaptation to failures of sanitization and of state protection
\* that started from strength 9: both are clamped to 10, input validation
\* did not fail and keeps 9
C16_Witness ==
  /\ phase = "Snapshotting"
  /\ \E j \in DOMAIN report.exploits :
       ~report.exploits[j].blocked /\ report.exploits[j].vector = SANITIZATION
  /\ \E j \in DOMAIN report.exploits :
       ~report.exploits[j].blocked /\ report.exploits[j].vector = STATE_PROTECTION
  /\ \A j \in DOMAIN report.exploits :
       report.exploits[j].vector = INPUT_VALIDATION => report.exploits[j].blocked
  /\ defenses[SANITIZATION].strength = MaxStrength
  /\ defenses[STATE_PROTECTION].strength = MaxStrength
  /\ defenses[INPUT_VALIDATION].strength = MaxStrength - 1

\* the complementary categories of the failed categories of the list being
\* adapted to
C17_Complementary ==
  UNION {{DefenseRelationships(c)[k] : k \in DOMAIN DefenseRelationships(c)} :
           c \in {d \in DefenseType : C16_Failed(d)}}

\* at least half of a non-empty list of records is blocked
C17_HalfBlocked ==
  /\ report.exploits /= << >>
  /\ 2 * Cardinality({j \in DOMAIN report.exploits : report.exploits[j].blocked})
       >= Len(report.exploits)

\* C17: after the adaptation step every complementary category of every
\* failed category that has an entry in the relationship table is active;
\* when at least half of the attacks were blocked, no category outside those
\* complementary sets changes its active flag.
C17_ComplementaryAreActivated ==
  [][C16_AdaptStep =>
       /\ \A c \in C17_Complementary : c \in DOMAIN defenses' /\ defenses'[c].active
       /\ C17_HalfBlocked =>
            \A c \in DOMAIN defenses \ C17_Complementary :
               defenses'[c].active = defenses[c].active]_vars

\* after an adaptation to one failure of sanitization and one of bounds
\* enforcement among four attacks: cryptography and rate limiting, inactive
\* at construction, are both active
C17_Witness ==
  /\ phase = "Snapshotting"
  /\ Len(report.exploits) = 4
  /\ {report.exploits[j].vector :
        j \in {k \in DOMAIN report.exploits : ~report.exploits[k].blocked}}
       = {SANITIZATION, BOUNDS_ENFORCEMENT}
  /\ Cardinality({j \in DOMAIN report.exploits : report.exploits[j].blocked}) = 2
  /\ defenses[CRYPTOGRAPHY].active
  /\ defenses[RATE_LIMITING].active

\* fewer than half of the records are blocked; zero records count as a block
\* fraction of zero
C18_LessThanHalfBlocked ==
  2 * Cardinality({j \in DOMAIN report.exploits : report.exploits[j].blocked})
    < Len(report.exploits)
  \/ report.exploits = << >>

\* C18: when fewer than half of the attacks of the generation were blocked
\* (zero attacks included) every registered category is active after the
\* adaptation step, and no category is registered by it.
C18_EmergencyActivatesAll ==
  [][C16_AdaptStep /\ C18_LessThanHalfBlocked =>
       /\ DOMAIN defenses' = Registered
       /\ \A c \in Registered : defenses'[c].active]_vars

\* after an adaptation to one blocked attack out of three, none of the
\* failures being of a category with complementary categories: rate limiting
\* and cryptography are active all the same
C18_Witness ==
  /\ phase = "Snapshotting"
  /\ Len(report.exploits) = 3
  /\ report.exploits[1].blocked
  /\ \A j \in 2..3 : ~report.exploits[j].blocked
                       /\ report.exploits[j].vector = STATE_PROTECTION
  /\ \A c \in Registered : defenses[c].active

\* success_rate of pattern p compared with n/5, by cross-multiplication;
\* success_rate is 0.0 when nothing was attempted
C19_RateAbove(p, n) == p.attempt_count > 0 /\ 5 * p.success_count > n * p.attempt_count
C19_RateBelow(p, n) == p.attempt_count = 0 \/ 5 * p.success_count < n * p.attempt_count

\* C19: in the adaptation step a pattern with success rate above 0.6 gets
\* difficulty min(10, old + 1) and one more adaptation counted; a pattern
\* with rate within [0.2, 0.6], or with rate below 0.2 and at most two
\* attempts, is left as it was.
C19_SuccessBranch ==
  [][C16_AdaptStep =>
       /\ DOMAIN attack_patterns' = DOMAIN attack_patterns
       /\ \A i \in DOMAIN attack_patterns :
            LET p == attack_patterns[i]
                q == attack_patterns'[i]
            IN /\ C19_RateAbove(p, 3) =>
                    /\ q.difficulty = Min(10, p.difficulty + 1)
                    /\ q.adaptations = p.adaptations + 1
               /\ (~C19_RateAbove(p, 3) /\ ~C19_RateBelow(p, 1))
                    \/ (C19_RateBelow(p, 1) /\ p.attempt_count <= 2)
                    => q = p]_vars

\* a pattern that succeeded four times out of five and was at difficulty 10
\* or 9 has been adapted: one adaptation counted, difficulty 10
C19_Witness ==
  /\ phase = "Snapshotting"
  /\ Len(attack_patterns) = 1
  /\ attack_patterns[1].success_count = 4
  /\ attack_patterns[1].attempt_count = 5
  /\ attack_patterns[1].adaptations = 1
  /\ attack_patterns[1].difficulty = 10

\* C20: in the adaptation step a pattern with success rate below 0.2 and more
\* than two attempts that targets bounds enforcement, sanitization or type
\* checking gets its difficulty raised by one and also one more adaptation
\* counted.
C20_MutationIsCounted ==
  [][C16_AdaptStep =>
       \A i \in DOMAIN attack_patterns :
          LET p == attack_patterns[i]
              q == attack_patterns'[i]
          IN (C19_RateBelow(p, 1) /\ p.attempt_count > 2
                /\ p.defense_type \in {BOUNDS_ENFORCEMENT, SANITIZATION, TYPE_CHECKING})
               => /\ q.difficulty = p.difficulty + 1
                  /\ q.adaptations = p.adaptations + 1]_vars

\* the step in which run_generation returns
C21_ReturnStep == phase = "Snapshotting" /\ phase' = "Idle"

\* C21: every run_generation(index) call appends exactly one report, with
\* generation = index, to the end of the orchestrator's log, and nothing
\* else changes the log; the seed's evolution history is always the same
\* sequence of reports as the log, and the seed's generation field is the
\* index of the last call (0 before the first).
C21_OneReportPerCall ==
  /\ [](/\ evolution_history = evolution_log
        /\ seed_generation = (IF evolution_log = << >> THEN 0
                              ELSE evolution_log[Len(evolution_log)].generation))
  /\ [][/\ (phase = "Idle" /\ phase' = "Executing") =>
              report'.generation = generation_number'
        /\ C21_ReturnStep =>
              /\ Len(evolution_log') = Len(evolution_log) + 1
              /\ SubSeq(evolution_log', 1, Len(evolution_log)) = evolution_log
              /\ evolution_log'[Len(evolution_log')].generation = generation_number
              /\ report.generation = generation_number
        /\ ~C21_ReturnStep => evolution_log' = evolution_log]_vars

\* three run_generation calls with indices 0, 1 and 2 have returned
C21_Witness ==
  /\ phase = "Idle"
  /\ cycle = "off"
  /\ Len(evolution_log) = 3
  /\ Len(evolution_history) = 3
  /\ \A k \in 1..3 : evolution_history[k].generation = k - 1
  /\ seed_generation = 2

\* the fields of a stored report that the claim names
C22_Content(r) ==
  <<r.generation, r.fitness_score, r.attacks_blocked, r.attacks_total,
    r.issues, r.exploits, r.defenses_snapshot>>

\* C22: a report is not changed once appended: whatever happens next (a
\* later generation, a strengthening, an activation, a test call, a
\* breakthrough pass), the fitness score, attack counts, issues, exploit
\* records and defense snapshot of every report already in the log, and in
\* the seed's history, stay as they were.
C22_ReportsAreImmutable ==
  [][/\ \A k \in DOMAIN evolution_log :
          /\ k \in DOMAIN evolution_log'
          /\ C22_Content(evolution_log'[k]) = C22_Content(evolution_log[k])
     /\ \A k \in DOMAIN evolution_history :
          /\ k \in DOMAIN evolution_history'
          /\ C22_Content(evolution_history'[k]) = C22_Content(evolution_history[k])]_vars

\* a breakthrough pass has strengthened input validation after generation 0
\* was reported: the stored snapshot still shows the earlier strength
C22_Witness ==
  /\ breakthroughs >= 1
  /\ Len(evolution_log) >= 2
  /\ evolution_log[1].generation = 0
  /\ evolution_log[1].defenses_snapshot[INPUT_VALIDATION].strength
       < defenses[INPUT_VALIDATION].strength

\* the snapshot of the current registry reports, for every registered
\* category and no other, the registry's current values
C23_SnapshotIsAccurate ==
  /\ DOMAIN GetSnapshot(defenses) = DOMAIN defenses
  /\ \A c \in DOMAIN defenses :
       /\ GetSnapshot(defenses)[c].active = defenses[c].active
       /\ GetSnapshot(defenses)[c].strength = defenses[c].strength
       /\ GetSnapshot(defenses)[c].triggered = defenses[c].times_triggered

\* after strengthen(c, a) the snapshot strength of c is min(10, old + a) and
\* nothing else in the snapshot differs
C23_StrengthenShows ==
  \A c \in DOMAIN defenses : \A a \in Amounts :
     GetSnapshot(Strengthen(defenses, c, a)) =
       [GetSnapshot(defenses) EXCEPT ![c].strength = Min(10, @ + a)]

\* C23: get_defense_snapshot is a read-only view of the registry: in every
\* reachable state it reports the current strength, active flag and trigger
\* count of each registered category, after a strengthen(c, a) it shows
\* min(10, old + a) for c and the same values for the others, the call made
\* at the end of run_generation changes nothing of the registry and stores
\* exactly that view, and a step that changes nothing of the registry leaves
\* the view as it was.
C23_SnapshotIsReadOnlyView ==
  /\ [](C23_SnapshotIsAccurate /\ C23_StrengthenShows)
  /\ [][/\ C21_ReturnStep =>
             /\ defenses' = defenses
             /\ request_count' = request_count
             /\ evolution_log'[Len(evolution_log')].defenses_snapshot
                  = GetSnapshot(defenses')
             /\ \A c \in DOMAIN defenses :
                  evolution_log'[Len(evolution_log')].defenses_snapshot[c].strength
                    = defenses[c].strength
        /\ defenses' = defenses => GetSnapshot(defenses') = GetSnapshot(defenses)
        /\ (directs' = directs + 1 /\ last_call'.op = "strengthen"
              /\ last_call'.category \in DOMAIN defenses) =>
             \E a \in Amounts :
                GetSnapshot(defenses') =
                  [GetSnapshot(defenses) EXCEPT
                     ![last_call'.category].strength = Min(10, @ + a)]]_vars

\* a client has strengthened input validation from 9: the snapshot shows 10
\* for it and still 9 for type checking
C23_Witness ==
  /\ last_call.op = "strengthen"
  /\ last_call.category = INPUT_VALIDATION
  /\ GetSnapshot(defenses)[INPUT_VALIDATION].strength = 10
  /\ GetSnapshot(defenses)[TYPE_CHECKING].strength = 9
  /\ ~GetSnapshot(defenses)[RATE_LIMITING].active

\* C24: on a fresh registry, when execute_suite blocked blocked1 attacks,
\* every category was then strengthened by 5 and execute_suite was run
\* again blocking blocked2 attacks, blocked2 >= blocked1.
C24_StrengtheningDoesNotUnblock ==
  Len(suite_results) = 2 => suite_results[2] >= suite_results[1]

\* the scenario has been run to its end on the full catalog from strength 1:
\* both suites ran nine attacks, the strengths are 6
C24_Witness ==
  /\ Len(suite_results) = 2
  /\ suite_results[1] = Len(Catalog)
  /\ Len(attack_patterns) = Len(Catalog)
  /\ \A i \in DOMAIN attack_patterns : attack_patterns[i].attempt_count = 2
  /\ defenses[BOUNDS_ENFORCEMENT].strength = 1 + TestStrengthenAmount

\* fraction a is at least fraction b
C25_AtLeast(a, b) == a.num * b.den >= b.num * a.den

\* C25: for a fresh seed and consecutive run_generation calls with indices
\* 0, 1, ..., the fitness score of every generation reported so far, the
\* last one included, is at least the fitness score of generation 0.
C25_FitnessDoesNotRegress ==
  \A k \in DOMAIN evolution_log :
     C25_AtLeast(evolution_log[k].fitness_score, evolution_log[1].fitness_score)

\* four generations of the full catalog have run: generation 3 used the
\* second obfuscation of the SQL injection, and it was blocked
C25_Witness ==
  /\ Len(evolution_log) = 4
  /\ evolution_log[4].generation = 3
  /\ Len(evolution_log[4].exploits) = Len(Catalog)
  /\ evolution_log[4].exploits[7].payload = sql_injection_obfuscated(3)
  /\ evolution_log[4].exploits[7].blocked
  /\ evolution_log[4].fitness_score = evolution_log[1].fitness_score

\* number of active defenses in a snapshot
C26_ActiveCount(snapshot) ==
  Cardinality({c \in DOMAIN snapshot : snapshot[c].active})

\* C26: no step sets a category's active flag from true to false (nor
\* removes a category); so the registry never has fewer active defenses
\* than the five active at initialization, and the number of active
\* defenses in the reports never decreases from one generation to the next.
C26_ActivationIsMonotone ==
  /\ [][\A c \in DOMAIN defenses :
          /\ c \in DOMAIN defenses'
          /\ defenses[c].active => defenses'[c].active]_vars
  /\ [](/\ C26_ActiveCount(GetSnapshot(defenses)) >= Cardinality(InitiallyActive)
        /\ \A c \in InitiallyActive : defenses[c].active
        /\ \A k \in DOMAIN evolution_log :
             /\ C26_ActiveCount(evolution_log[k].defenses_snapshot)
                  >= Cardinality(InitiallyActive)
             /\ k > 1 =>
                  C26_ActiveCount(evolution_log[k].defenses_snapshot)
                    >= C26_ActiveCount(evolution_log[k - 1].defenses_snapshot))

\* generation 0 ended with the five initial defenses active; a failure in
\* generation 1 activated more, and they are still active
C26_Witness ==
  /\ Len(evolution_log) >= 2
  /\ C26_ActiveCount(evolution_log[1].defenses_snapshot) = Cardinality(InitiallyActive)
  /\ C26_ActiveCount(evolution_log[2].defenses_snapshot) > Cardinality(InitiallyActive)
  /\ C26_ActiveCount(GetSnapshot(defenses))
       >= C26_ActiveCount(evolution_log[2].defenses_snapshot)

\* run_evolution_cycle stands between two iterations of its loop, or has
\* left the loop
C27_BetweenIterations == cycle \in {"loop", "done", "raised"}

\* metrics entry m records report r
C27_Records(m, r) ==
  /\ m.generation = r.generation
  /\ m.fitness_score = r.fitness_score
  /\ m.attacks_blocked = r.attacks_blocked
  /\ m.attacks_total = r.attacks_total

C27_Unrecorded ==
  Len(evolution_log) - Len(metrics_history)
    - (IF cycle = "after_generation" THEN 1 ELSE 0)

C28_Successor(p) ==
  CASE p = "Idle" -> "Executing"
    [] p = "Executing" -> "Analyzing"
    [] p = "Analyzing" -> "Adapting"
    [] p = "Adapting" -> "Snapshotting"
    [] OTHER -> "Idle"

\* C28: within a generation the phases run in the order execute, analyze,
\* adapt (defenses, then attacks), snapshot. The exploit records get each
\* pattern's difficulty and the blocked outcome in the execute phase, and
\* neither analysis nor adaptation changes them, so they show the state
\* before that generation's adaptation; the snapshot stored in the report is
\* taken from the registry as the adaptation of that generation left it.
C28_PhaseOrderAndContent ==
  [][/\ phase' /= phase => phase' = C28_Successor(phase)
     /\ C6_SuiteStep =>
          \A i \in DOMAIN report'.exploits :
             /\ report'.exploits[i].difficulty = attack_patterns[i].difficulty
             /\ report'.exploits[i].blocked
                  = (attack_patterns'[i].success_count = attack_patterns[i].success_count)
     /\ C15_AnalyzeStep =>
          /\ report'.exploits = report.exploits
          /\ defenses' = defenses /\ attack_patterns' = attack_patterns
     /\ C16_AdaptStep =>
          /\ report'.exploits = report.exploits
          /\ report'.issues = report.issues
          /\ report'.defenses_snapshot = EmptySnapshot
     /\ C21_ReturnStep =>
          /\ evolution_log'[Len(evolution_log')].exploits = report.exploits
          /\ attack_patterns' = attack_patterns
          /\ defenses' = defenses
          /\ \A c \in DOMAIN defenses :
               /\ evolution_log'[Len(evolution_log')].defenses_snapshot[c].strength
                    = defenses[c].strength
               /\ evolution_log'[Len(evolution_log')].defenses_snapshot[c].active
                    = defenses[c].active]_vars

\* generation 0 from strength 1 is reported, with an attack that got
\* through: its record keeps the difficulty the pattern had when it ran (the
\* pattern is one harder now), and the snapshot shows the target already
\* strengthened to 3
C28_Witness ==
  /\ Len(evolution_log) = 1
  /\ \E i \in DOMAIN evolution_log[1].exploits :
       /\ ~evolution_log[1].exploits[i].blocked
       /\ attack_patterns[i].difficulty = evolution_log[1].exploits[i].difficulty + 1
       /\ evolution_log[1].exploits[i].difficulty = Catalog[i].difficulty
       /\ evolution_log[1].defenses_snapshot[evolution_log[1].exploits[i].vector].strength
            = DefaultStrength + AdaptIncrement

\* what adapt_patterns alone makes of pattern p: a function of p's own
\* statistics, difficulty and target
C29_AttackAdapted(p) ==
  IF C19_RateAbove(p, 3)
  THEN [p EXCEPT !.difficulty = Min(10, @ + 1), !.adaptations = @ + 1]
  ELSE IF C19_RateBelow(p, 1) /\ p.attempt_count > 2
            /\ p.defense_type \in {BOUNDS_ENFORCEMENT, SANITIZATION, TYPE_CHECKING}
       THEN [p EXCEPT !.difficulty = @ + 1]
       ELSE p

\* C29: attack adaptation and defense adaptation are independent. In the
\* adaptation step the patterns end as adapt_patterns alone leaves them (no
\* attempt or success count changes, and difficulty and adaptation count
\* depend on the pattern only, not on the registry or on what the defense
\* adaptation did), and the registry ends as the defense adaptation alone
\* leaves it, for one of the iteration orders (no trigger, block or
\* false-positive counter and no request counter changes).
C29_AdaptationsAreIndependent ==
  [][C16_AdaptStep =>
       /\ DOMAIN attack_patterns' = DOMAIN attack_patterns
       /\ \A i \in DOMAIN attack_patterns :
            /\ attack_patterns'[i] = C29_AttackAdapted(attack_patterns[i])
            /\ attack_patterns'[i].attempt_count = attack_patterns[i].attempt_count
            /\ attack_patterns'[i].success_count = attack_patterns[i].success_count
       /\ request_count' = request_count
       /\ \A c \in DOMAIN defenses :
            /\ defenses'[c].times_triggered = defenses[c].times_triggered
            /\ defenses'[c].successful_blocks = defenses[c].successful_blocks
            /\ defenses'[c].false_positives = defenses[c].false_positives
       /\ \E order \in Orders({c \in DefenseType : C16_Failed(c)}) :
            defenses' = ApplyDefensiveAdaptations(defenses, report.exploits, order).defs]_vars

\* the adaptation step has run after an attack got through: the target was
\* strengthened and the pattern, with one success in one attempt, was made
\* harder
C29_Witness ==
  /\ phase = "Snapshotting"
  /\ \E i \in DOMAIN report.exploits :
       /\ ~report.exploits[i].blocked
       /\ attack_patterns[i].success_count = 1
       /\ attack_patterns[i].attempt_count = 1
       /\ attack_patterns[i].adaptations = 1
       /\ defenses[report.exploits[i].vector].strength = DefaultStrength + AdaptIncrement

\* C30: execute_suite changes only counters. It may change the trigger,
\* block and false-positive counters of the defenses, the request counter
\* and the attempt and success counts of the patterns; it changes no
\* category's active flag or strength, registers and removes no category,
\* changes no pattern's difficulty, adaptation count, description, target
\* or generator, and leaves the number and the order of the patterns.
C30_SuiteChangesOnlyCounters ==
  [][C6_SuiteStep =>
       /\ DOMAIN defenses' = DOMAIN defenses
       /\ \A c \in DOMAIN defenses :
            /\ defenses'[c].active = defenses[c].active
            /\ defenses'[c].strength = defenses[c].strength
            /\ defenses'[c].times_triggered >= defenses[c].times_triggered
       /\ Len(attack_patterns') = Len(attack_patterns)
       /\ \A i \in DOMAIN attack_patterns :
            /\ attack_patterns'[i] =
                 [attack_patterns[i] EXCEPT
                    !.attempt_count = attack_patterns'[i].attempt_count,
                    !.success_count = attack_patterns'[i].success_count]
            /\ attack_patterns'[i].attempt_count = attack_patterns[i].attempt_count + 1
       /\ generation_number' = generation_number
       /\ evolution_log' = evolution_log]_vars

\* the suite of generation 1 has run on the six default patterns, one attack
\* having got through in generation 0: the counters moved (two attempts
\* each), while the difficulty and adaptation count of that pattern are
\* those the adaptation of generation 0 left, and rate limiting is inactive
C30_Witness ==
  /\ phase = "Analyzing"
  /\ generation_number = 1
  /\ Len(attack_patterns) = DefaultPopulation
  /\ \A i \in DOMAIN attack_patterns : attack_patterns[i].attempt_count = 2
  /\ \E i \in DOMAIN attack_patterns :
       /\ attack_patterns[i].success_count = 1
       /\ attack_patterns[i].difficulty = Catalog[i].difficulty + 1
       /\ attack_patterns[i].adaptations = 1
  /\ defenses[INPUT_VALIDATION].times_triggered >= 3
  /\ ~defenses[RATE_LIMITING].active


\* C31: the aggregate results of execute_suite do not depend on the order of
\* the patterns. From every registry state, for every reordering of the
\* pattern list and whichever attacks fail (the fault follows its pattern to
\* the new position), the suite returns the same blocked count and total and
\* leaves the same times_triggered and successful_blocks in every category.
C31_OrderInsensitive ==
  \A f \in Bijections(Len(attack_patterns)) :
    \A fa \in FaultChoices(Len(attack_patterns), 1) :
      SuiteAggregates(ExecuteSuite(Reg(defenses, request_count),
                                   Permute(attack_patterns, f),
                                   generation_number, Permute(fa, f)))
        = SuiteAggregates(ExecuteSuite(Reg(defenses, request_count),
                                       attack_patterns, generation_number, fa))

\* a suite has run over a list that is not in catalog order and holds both
\* input-validation patterns and a pattern of another category
C31_ReorderedSuiteRan ==
  /\ suite_results /= << >>
  /\ Len(attack_patterns) = MaxOrderLen
  /\ attack_patterns[1].generator > attack_patterns[2].generator
  /\ {1, 2} \subseteq {attack_patterns[i].generator : i \in 1..Len(attack_patterns)}
  /\ \E i \in 1..Len(attack_patterns) : attack_patterns[i].attempt_count = 1

\* C32: cross-registry accounting. A pattern records a success exactly when
\* its attack was not blocked, so while the defenses are exercised through
\* the executor alone (no client call of test_defense), for every category c
\* successful_blocks[c] equals the sum over the patterns targeting c of
\* attempt_count - success_count, and times_triggered[c] is at most the sum
\* of their attempt_count. Stated as: it holds after construction, and every
\* step other than a client's test_defense call keeps the difference of the
\* two sides of the equality and does not shrink the slack of the inequality.
RECURSIVE C32_Sum(_, _, _)
C32_Sum(F(_), pats, n) ==
  IF n = 0 THEN 0 ELSE C32_Sum(F, pats, n - 1) + F(pats[n])

C32_Failures(c) ==
  LET f(p) == IF p.defense_type = c THEN p.attempt_count - p.success_count ELSE 0
  IN C32_Sum(f, attack_patterns, Len(attack_patterns))

C32_Attempts(c) ==
  LET f(p) == IF p.defense_type = c THEN p.attempt_count ELSE 0
  IN C32_Sum(f, attack_patterns, Len(attack_patterns))

C32_Balanced ==
  \A c \in DOMAIN defenses :
    /\ defenses[c].successful_blocks = C32_Failures(c)
    /\ defenses[c].times_triggered <= C32_Attempts(c)

C32_ClientTestStep == directs' /= directs /\ last_call'.op = "test"

C32_ExecutorAccounting ==
  /\ C32_Balanced
  /\ [][~C32_ClientTestStep =>
          \A c \in DOMAIN defenses :
            /\ defenses'[c].successful_blocks - C32_Failures(c)'
                 = defenses[c].successful_blocks - C32_Failures(c)
            /\ C32_Attempts(c)' - defenses'[c].times_triggered
                 >= C32_Attempts(c) - defenses[c].times_triggered]_vars

\* no client has called test_defense, and a category has blocked one attack
\* while another attack on it got through without reaching trigger (its
\* evaluation raised): blocks balance, triggers fall short of the attempts
C32_UntriggeredSuccess ==
  /\ last_call.op /= "test"
  /\ C32_Balanced
  /\ \E c \in DOMAIN defenses :
       /\ defenses[c].successful_blocks > 0
       /\ defenses[c].times_triggered < C32_Attempts(c)
       /\ \E i \in 1..Len(attack_patterns) :
            /\ attack_patterns[i].defense_type = c
            /\ attack_patterns[i].success_count > 0

\* C33: rate limiting. An evaluation blocks exactly when strength >= 5 and
\* the request counter, incremented for this call, exceeds strength * 2; a
\* block resets the counter to 0 and a pass keeps the increment. Hence below
\* strength 5 nothing is blocked, after an evaluation made with
\* strength >= 5 the counter is at most strength * 2, and while the strength
\* has stayed the same s >= 5 since the first evaluation, exactly every
\* (2s + 1)-th evaluation is blocked.
C33_Rate == defenses[RATE_LIMITING]

C33_EvaluationStep ==
  defenses'[RATE_LIMITING].times_triggered = C33_Rate.times_triggered + 1

C33_RateLimit ==
  [][C33_EvaluationStep =>
       /\ last_call'.blocked
            <=> (C33_Rate.strength >= 5
                   /\ request_count + 1 > C33_Rate.strength * 2)
       /\ request_count' = IF last_call'.blocked THEN 0 ELSE request_count + 1
       /\ defenses'[RATE_LIMITING].successful_blocks
            = C33_Rate.successful_blocks + (IF last_call'.blocked THEN 1 ELSE 0)
       /\ C33_Rate.strength < 5 => ~last_call'.blocked
       /\ C33_Rate.strength >= 5 => request_count' <= C33_Rate.strength * 2
       /\ (directs = 0 /\ C33_Rate.strength >= 5) =>
            (last_call'.blocked
               <=> (C33_Rate.times_triggered + 1) % (2 * C33_Rate.strength + 1) = 0)]_vars

\* at strength 5, never changed since the first evaluation, the limiter has
\* just blocked for the second time: the 22nd evaluation
C33_SecondPeriodBlocked ==
  /\ directs = 0
  /\ C33_Rate.strength = 5
  /\ C33_Rate.times_triggered = 22
  /\ C33_Rate.successful_blocks = 2
  /\ last_call.blocked
  /\ request_count = 0

\* C34 (as the code has it): RateLimitingDefense.evaluate counts every call
\* it receives, whatever the category's active flag, and activation does not
\* reset the count; but a call that arrives through the registry while rate
\* limiting is inactive is answered "Defense inactive" before evaluate runs
\* and leaves the counter as it was.
C34_DirectStep == last_call'.op = "execute" /\ C33_EvaluationStep

C34_RegistryStep ==
  last_call'.op = "test" /\ (C33_EvaluationStep \/ last_call' /= last_call)

C34_ActivateStep == last_call' /= last_call /\ last_call'.op = "activate"

C34_Counted ==
  request_count' = IF last_call'.blocked THEN 0 ELSE request_count + 1

C34_CounterAndActiveFlag ==
  [][/\ C34_DirectStep => C34_Counted
     /\ (C34_RegistryStep /\ C33_Rate.active) => C34_Counted
     /\ (C34_RegistryStep /\ ~C33_Rate.active) =>
          /\ request_count' = request_count
          /\ last_call'.reason = "Defense inactive"
          /\ defenses' = defenses
     /\ C34_ActivateStep =>
          /\ request_count' = request_count
          /\ defenses'[RATE_LIMITING].active]_vars

\* C34 as stated: every call counts, those through the registry while rate
\* limiting is inactive included
C34_EveryCallCounted ==
  [][(C34_DirectStep \/ C34_RegistryStep) => C34_Counted]_vars

\* rate limiting is inactive, direct evaluations have counted two or more
\* requests, and the registry has just answered a call without counting it
C34_InactiveRegistryCall ==
  /\ ~C33_Rate.active
  /\ request_count >= 2
  /\ C33_Rate.times_triggered = request_count
  /\ last_call = Call("test", RATE_LIMITING, FALSE, "Defense inactive")

\* C35: bounds enforcement. At every strength s in 1..10 the limit is
\* 50 - (10 - s) * 3 (23 at s = 1, 50 at s = 10); execute blocks a string
\* exactly when its length exceeds the limit, a list or dict exactly when
\* twice its size exceeds the limit, and blocks no other value; at s = 1 a
\* string of 200 characters is blocked and one of 20 is not.
C35_BoundsStep ==
  /\ directs' = directs + 1
  /\ last_call'.op = "execute"
  /\ last_call'.category = BOUNDS_ENFORCEMENT

C35_Limit == 50 - (10 - defenses[BOUNDS_ENFORCEMENT].strength) * 3

C35_BoundsEnforcement ==
  /\ defenses[BOUNDS_ENFORCEMENT].strength = 1 => C35_Limit = 23
  /\ defenses[BOUNDS_ENFORCEMENT].strength = 10 => C35_Limit = 50
  /\ [][C35_BoundsStep =>
          /\ last_call'.blocked <=>
               \/ evaluated'.kind = "str" /\ evaluated'.len > C35_Limit
               \/ evaluated'.kind \in {"list", "dict"}
                    /\ 2 * evaluated'.len > C35_Limit
          /\ (C35_Limit = 23 /\ evaluated'.kind = "str" /\ evaluated'.len = 200)
               => last_call'.blocked
          /\ (C35_Limit = 23 /\ evaluated'.kind = "str" /\ evaluated'.len = 20)
               => ~last_call'.blocked]_vars

\* at strength 1 a string of 24 characters has just been blocked by the
\* bounds check, after a string of 23 characters or a list of 11 items passed
C35_JustOverTheLimit ==
  /\ defenses[BOUNDS_ENFORCEMENT].strength = 1
  /\ last_call = Call("execute", BOUNDS_ENFORCEMENT, TRUE, "Rejected: string too long")
  /\ evaluated.kind = "str" /\ evaluated.len = 24
  /\ defenses[BOUNDS_ENFORCEMENT].times_triggered = 2
  /\ defenses[BOUNDS_ENFORCEMENT].successful_blocks = 1

\* C36: strengthening never weakens a verdict. Whenever execute blocks a
\* value at strength s, evaluate from the same counter state blocks the same
\* value at every strength s' with s < s' <= 10.
C36_BlockedStep == directs' = directs + 1 /\ last_call'.blocked

C36_StrongerStillBlocks ==
  [][C36_BlockedStep =>
       \A s2 \in (defenses[last_call'.category].strength + 1)..MaxStrength :
         Evaluate(last_call'.category, evaluated', s2, request_count).blocked]_vars

\* the same, for the five categories whose limits do not move with strength
C36_FixedLimitCategories ==
  [][(C36_BlockedStep
        /\ last_call'.category \notin {BOUNDS_ENFORCEMENT, RATE_LIMITING}) =>
       \A s2 \in (defenses[last_call'.category].strength + 1)..MaxStrength :
         Evaluate(last_call'.category, evaluated', s2, request_count).blocked]_vars

\* C37: defense adaptation does not depend on the order in which the failed
\* categories are visited. Whatever order the adaptation step takes, every
\* other order of the same failed categories yields the same strength and
\* active flag for every category and the same number of fixes: one per
\* failed category, one per complementary category switched from inactive to
\* active, one for the emergency rule.
C37_Outcome(d) ==
  [fixes |-> d.fixes,
   configs |-> [c \in DOMAIN d.defs |-> <<d.defs[c].strength, d.defs[c].active>>]]

C37_FixCount ==
  Cardinality({c \in DefenseType : C16_Failed(c)})
    + Cardinality({c \in C17_Complementary : ~defenses[c].active})
    + (IF C18_LessThanHalfBlocked THEN 1 ELSE 0)

C37_OrderOfFailedCategories ==
  [][C16_AdaptStep =>
       /\ \A order \in Orders(FailedDefenses(report.exploits)) :
            C37_Outcome(ApplyDefensiveAdaptations(defenses, report.exploits, order))
              = C37_Outcome([defs |-> defenses', fixes |-> report'.code_iterations])
       /\ report'.code_iterations = C37_FixCount]_vars

\* the adaptation to failures of input validation, sanitization and bounds
\* enforcement among four attacks has run: three strengthenings, cryptography
\* and rate limiting switched on, and the emergency rule make six fixes
C37_ThreeFailedCategories ==
  /\ phase = "Snapshotting"
  /\ Len(report.exploits) = 4
  /\ FailedDefenses(report.exploits)
       = {INPUT_VALIDATION, SANITIZATION, BOUNDS_ENFORCEMENT}
  /\ report.code_iterations = 6
  /\ defenses[CRYPTOGRAPHY].active /\ defenses[RATE_LIMITING].active
  /\ defenses[SANITIZATION].strength = MaxStrength

\* C38: in the mutation branch (success rate below 0.2 and more than two
\* attempts) a pattern that targets a category other than bounds
\* enforcement, sanitization and type checking keeps its difficulty, its
\* adaptation count and its counters, and adapt_patterns still reports a
\* "Mutated payload" entry for it.
C38_Unmutated(p) ==
  /\ C19_RateBelow(p, 1)
  /\ p.attempt_count > 2
  /\ p.defense_type \notin {BOUNDS_ENFORCEMENT, SANITIZATION, TYPE_CHECKING}

C38_MutationWithoutEffect ==
  [][C16_AdaptStep =>
       \A i \in DOMAIN attack_patterns :
          C38_Unmutated(attack_patterns[i]) =>
            /\ attack_patterns'[i] = attack_patterns[i]
            /\ \E k \in (Len(adaptation_history) + 1)..Len(adaptation_history') :
                 adaptation_history'[k]
                   = <<"mutated", attack_patterns[i].description>>]_vars

\* the adaptation step has run on 'State object corruption' (state
\* protection) with no success in three or more attempts: difficulty 3 and
\* no adaptation counted, and the last entry of the history is its mutation
C38_ReportedButUnchanged ==
  /\ phase = "Snapshotting"
  /\ \E i \in DOMAIN attack_patterns :
       /\ attack_patterns[i].defense_type = STATE_PROTECTION
       /\ attack_patterns[i].attempt_count >= 3
       /\ attack_patterns[i].success_count = 0
       /\ attack_patterns[i].difficulty = 3
       /\ attack_patterns[i].adaptations = 0
       /\ adaptation_history /= << >>
       /\ Last(adaptation_history) = <<"mutated", attack_patterns[i].description>>

\* C39: with the default configuration (strength 1 for the five initially
\* active categories, the first 6 catalog patterns) and no raising generator
\* or evaluator, every attack of every generation is blocked: every
\* generation has fitness_score 100, no issues and zero defensive fixes, so
\* run_evolution_cycle ends after exactly one generation, and no defense
\* strength or active flag changes unless a client changes it.
C39_Default ==
  /\ faults = 0
  /\ Len(attack_patterns) = DefaultPopulation
  /\ DOMAIN defenses = Registered
  /\ \A c \in Registered :
       /\ defenses[c].strength = DefaultStrength
       /\ defenses[c].active <=> c \in InitiallyActive

C39_DefaultAlwaysPerfect ==
  [][(C39_Default /\ faults' = 0 /\ directs' = directs) =>
       /\ C39_Default'
       /\ C6_SuiteStep =>
            /\ report'.attacks_total = DefaultPopulation
            /\ report'.attacks_blocked = DefaultPopulation
            /\ \A j \in DOMAIN report'.exploits : report'.exploits[j].blocked
            /\ report'.fitness_score.num = 100 * report'.fitness_score.den
       /\ C15_AnalyzeStep => report'.issues = << >>
       /\ C16_AdaptStep =>
            /\ report'.code_iterations = 0
            /\ code_iteration_count' = code_iteration_count
       /\ cycle /= "off" => gen' = gen
       /\ cycle = "after_generation" =>
            /\ cycle' = "done"
            /\ gen = 0
            /\ Len(metrics_history') = 1]_vars

\* a cycle of up to ten generations on the default configuration has ended
\* after its first: one report, perfect, without issues or fixes
C39_CycleOfOneGeneration ==
  /\ C39_Default
  /\ max_generations = DefaultMaxGenerations
  /\ cycle = "done"
  /\ gen = 0
  /\ Len(evolution_log) = 1
  /\ Len(metrics_history) = 1
  /\ PerfectDefense(Last(evolution_log))
  /\ Last(evolution_log).issues = << >>
  /\ Last(evolution_log).code_iterations = 0
====
